---- MODULE Spec2Model ----
(***************************************************************************)
(* Model of yedxtract's graphml engine (src/src/graphml.ts): the path      *)
(* accessor (getNestedProperty / setNestedProperty), the entity collector  *)
(* (getGraphUnit, extractElements), the field extractor (extractFields)    *)
(* and the merge engine (updateGraph).                                     *)
(*                                                                         *)
(* A tree value (IXMLValue) is one record shape for all three variants so  *)
(* that values of different variants can be compared:                      *)
(*   t = "s"  string leaf, text in s                                       *)
(*   t = "l"  array, elements in c                                         *)
(*   t = "m"  object, keys in k (insertion order), values in c             *)
(*   t = "u"  JavaScript undefined                                         *)
(*                                                                         *)
(* A function of the source is one operator of the same name; where the    *)
(* function names an intermediate result (const x = ...), the rest of the  *)
(* function is a second operator that takes the result as a parameter.     *)
(* A call that may throw yields a record with the message in err ("" when  *)
(* the call returned).  Objects the code holds by reference are held here  *)
(* by their path from the root of the tree.                                *)
(***************************************************************************)
EXTENDS Integers, Sequences, FiniteSets, TLC

VARIABLES
  tree,             \* the parsed graphml (or, for the path accessor, any tree)
  before,           \* the tree before the last call
  call,             \* the last call and its arguments
  ret,              \* what the last call returned or threw
  extractedFields   \* the field schema of the export (fieldsToExport)

vars == <<tree, before, call, ret, extractedFields>>

\* ------------------------------------------------------------------ bounds
MaxListLen == 2
MaxNodes == 2
MaxEdges == 1

\* ------------------------------------------------------------- tree values
Leaf(x) == [t |-> "s", s |-> x, k |-> <<>>, c |-> <<>>]
List(cs) == [t |-> "l", s |-> "", k |-> <<>>, c |-> cs]
Map(ks, cs) == [t |-> "m", s |-> "", k |-> ks, c |-> cs]
Undefined == [t |-> "u", s |-> "", k |-> <<>>, c |-> <<>>]

\* path segments: a string key (among them the singleton selector "[0]") or a number
Key(x) == [num |-> FALSE, s |-> x, i |-> 0]
Idx(n) == [num |-> TRUE, s |-> "", i |-> n]
Singleton == Key("[0]")

\* JavaScript's property name of a number used as an object key
NumStr(n) == IF n \in 0..4 THEN <<"0", "1", "2", "3", "4">>[n + 1] ELSE "n"
KeyName(key) == IF key.num THEN NumStr(key.i) ELSE key.s

Min(S) == CHOOSE j \in S : \A h \in S : j <= h

\* position of key x in object m, 0 when absent
KeyPos(m, x) ==
  IF \E j \in 1..Len(m.k) : m.k[j] = x
  THEN CHOOSE j \in 1..Len(m.k) : m.k[j] = x
  ELSE 0

\* m[x] of an object: the value, or undefined
PropAt(m, pos) == IF pos = 0 THEN Undefined ELSE m.c[pos]
Prop(m, x) == PropAt(m, KeyPos(m, x))

\* m[x] = v of an object: overwrite in place or append a new key
PutAt(m, x, v, pos) ==
  IF pos = 0
  THEN Map(Append(m.k, x), Append(m.c, v))
  ELSE Map(m.k, [m.c EXCEPT ![pos] = v])
PutProp(m, x, v) == PutAt(m, x, v, KeyPos(m, x))

Ok(v) == [err |-> "", v |-> v]
Throw(e) == [err |-> e, v |-> Undefined]

\* ----------------------------------------------------------- path accessor
\* mutant: the singleton selector takes the first element of any array
getStep_first(value, key) ==
  IF value.t = "s" THEN Throw("String encountered when getting nested property")
  ELSE IF value.t = "l" /\ key.num
    THEN Ok(IF key.i + 1 \in 1..Len(value.c) THEN value.c[key.i + 1] ELSE Undefined)
  ELSE IF value.t = "l" /\ ~key.num /\ key.s = "[0]"
    THEN Ok(IF Len(value.c) >= 1 THEN value.c[1] ELSE Undefined)
  ELSE IF value.t # "l" /\ ~key.num
    THEN IF value.t = "u" THEN Throw("TypeError") ELSE Ok(Prop(value, key.s))
  ELSE Throw("Invalid value when getting nested property")

\* one iteration of the loop of getNestedProperty
getStep(value, key) ==
  IF value.t = "s" THEN Throw("String encountered when getting nested property")
  ELSE IF value.t = "l" /\ key.num
    THEN Ok(IF key.i + 1 \in 1..Len(value.c) THEN value.c[key.i + 1] ELSE Undefined)
  ELSE IF value.t = "l" /\ ~key.num /\ key.s = "[0]"
    THEN IF Len(value.c) # 1
         THEN Throw("Accessing singleton array which is not singleton")
         ELSE Ok(value.c[1])
  ELSE IF value.t # "l" /\ ~key.num
    THEN IF value.t = "u" THEN Throw("TypeError") ELSE Ok(Prop(value, key.s))
  ELSE Throw("Invalid value when getting nested property")

RECURSIVE getNestedProperty(_, _)
\* the loop after one iteration gave r
getRest(r, keys) ==
  IF r.err # "" THEN r ELSE getNestedProperty(r.v, keys)

getNestedProperty(data, keys) ==
  IF keys = <<>> THEN Ok(data)
  ELSE getRest(getStep(data, Head(keys)), Tail(keys))

AsString(r) ==
  IF r.err # "" THEN r
  ELSE IF r.v.t # "s" THEN Throw("Property not string") ELSE r
getNestedString(data, keys) == AsString(getNestedProperty(data, keys))

AsArray(r) ==
  IF r.err # "" THEN r
  ELSE IF r.v.t # "l" THEN Throw("Property not an array") ELSE r
getNestedArray(data, keys) == AsArray(getNestedProperty(data, keys))

\* mutant: an array passes for an IXMLField
AsXMLField_arrays(r) ==
  IF r.err # "" THEN r
  ELSE IF r.v.t = "s" THEN Throw("Property not IXMLField") ELSE r

AsXMLField(r) ==
  IF r.err # "" THEN r
  ELSE IF r.v.t = "s" \/ r.v.t = "l" THEN Throw("Property not IXMLField") ELSE r
getNestedXMLField(data, keys) == AsXMLField(getNestedProperty(data, keys))

\* the tree after the object reached from data along keys has been mutated
\* into new (the code mutates through a reference; keys resolved before)
RECURSIVE replaceAt(_, _, _)
replaceChild(data, pos, keys, new) ==
  [data EXCEPT !.c[pos] = replaceAt(data.c[pos], keys, new)]
ChildPos(data, key) ==
  IF data.t = "l" THEN (IF key.num THEN key.i + 1 ELSE 1) ELSE KeyPos(data, key.s)
replaceAt(data, keys, new) ==
  IF keys = <<>> THEN new
  ELSE replaceChild(data, ChildPos(data, Head(keys)), Tail(keys), new)

Front(keys) == SubSeq(keys, 1, Len(keys) - 1)
Last(keys) == keys[Len(keys)]

\* obj[lastKey] = value, obj the result of getNestedXMLField; err, and in v
\* the data after the assignment
\* mutant: an assignment into undefined is ignored
setSlot_ignored(data, front, lastKey, value, obj) ==
  IF obj.err # "" THEN [err |-> obj.err, v |-> data]
  ELSE IF obj.v.t = "u" THEN [err |-> "", v |-> data]
  ELSE [err |-> "", v |-> replaceAt(data, front, PutProp(obj.v, KeyName(lastKey), value))]

setSlot(data, front, lastKey, value, obj) ==
  IF obj.err # "" THEN [err |-> obj.err, v |-> data]
  ELSE IF obj.v.t = "u" THEN [err |-> "TypeError", v |-> data]
  ELSE [err |-> "", v |-> replaceAt(data, front, PutProp(obj.v, KeyName(lastKey), value))]

\* mutant: the slot is named by the first key instead of the last
setNestedProperty_firstKey(data, keys, value) ==
  IF Len(keys) < 1 THEN [err |-> "Keys cannot be empty", v |-> data]
  ELSE setSlot(data, Front(keys), keys[1], value, getNestedXMLField(data, Front(keys)))

\* setNestedProperty: err, and in v the data after the call
setNestedProperty(data, keys, value) ==
  IF Len(keys) < 1 THEN [err |-> "Keys cannot be empty", v |-> data]
  ELSE setSlot(data, Front(keys), Last(keys), value, getNestedXMLField(data, Front(keys)))

\* --------------------------------------------------------- optional values
\* a value of type string | null | undefined
Str(x) == [k |-> "str", s |-> x]
Null == [k |-> "null", s |-> ""]
Undef == [k |-> "undef", s |-> ""]
\* the result of a getNestedString inside try/catch: the string, or null
OrNull(r) == IF r.err # "" THEN Null ELSE Str(r.v.s)

\* first error of a sequence of results, "" when there is none
FirstErr(rs) ==
  IF \E j \in 1..Len(rs) : rs[j].err # ""
  THEN rs[Min({j \in 1..Len(rs) : rs[j].err # ""})].err
  ELSE ""

\* -------------------------------------------------------- entity collector
\* mutant: without a key of the type, the first declared key is used
keyIdOf_firstKey(keys, hits, keyValue) ==
  IF hits = {}
  THEN (IF Len(keys.c) = 0 THEN Throw(keyValue \o " key missing")
        ELSE Ok(Prop(Prop(keys.c[1], "$"), "id")))
  ELSE IF Prop(Prop(keys.c[Min(hits)], "$"), "id").t = "u"
    THEN Throw(keyValue \o " key missing")
  ELSE Ok(Prop(Prop(keys.c[Min(hits)], "$"), "id"))

\* id of the key at the first of the positions hits
keyIdOf(keys, hits, keyValue) ==
  IF hits = {} \/ Prop(Prop(keys.c[Min(hits)], "$"), "id").t = "u"
  THEN Throw(keyValue \o " key missing")
  ELSE Ok(Prop(Prop(keys.c[Min(hits)], "$"), "id"))

\* findKeyId: first key whose attribute equals the value, its id
findKeyId(keys, keyAttribute, keyValue) ==
  keyIdOf(keys,
          {j \in 1..Len(keys.c) :
             /\ keys.c[j].t = "m"
             /\ Prop(keys.c[j], "$").t = "m"
             /\ Prop(Prop(keys.c[j], "$"), keyAttribute) = Leaf(keyValue)},
          keyValue)

\* where the elements of one kind live in the graph
UnitsAt(type) == <<Key("graphml"), Key("graph"), Idx(0), Key(type)>>

\* mutant: of several children with the key the first is taken
filterWithKey_first(ds, keyOf, dataKey) ==
  IF FirstErr(keyOf) # "" THEN [err |-> FirstErr(keyOf), pos |-> 0]
  ELSE IF Cardinality({h \in 1..Len(ds) : ds[h].t # "s" /\ keyOf[h].v = Leaf(dataKey)}) = 0
    THEN [err |-> "Single item data field with key not found", pos |-> 0]
  ELSE [err |-> "",
        pos |-> Min({h \in 1..Len(ds) : ds[h].t # "s" /\ keyOf[h].v = Leaf(dataKey)})]

\* itemDataFields.filter(...): keyOf holds the getNestedString of every
\* child that is not a string; err, or the position of the only child with
\* the key
filterWithKey(ds, keyOf, dataKey) ==
  IF FirstErr(keyOf) # "" THEN [err |-> FirstErr(keyOf), pos |-> 0]
  ELSE IF Cardinality({h \in 1..Len(ds) : ds[h].t # "s" /\ keyOf[h].v = Leaf(dataKey)}) # 1
    THEN [err |-> "Single item data field with key not found", pos |-> 0]
  ELSE [err |-> "",
        pos |-> Min({h \in 1..Len(ds) : ds[h].t # "s" /\ keyOf[h].v = Leaf(dataKey)})]

itemDataOf(itemDataFields, dataKey) ==
  IF itemDataFields.err # "" THEN [err |-> itemDataFields.err, pos |-> 0]
  ELSE filterWithKey(itemDataFields.v.c,
                     [h \in 1..Len(itemDataFields.v.c) |->
                        IF itemDataFields.v.c[h].t = "s" THEN Ok(Undefined)
                        ELSE getNestedString(itemDataFields.v.c[h], <<Key("$"), Key("key")>>)],
                     dataKey)

\* the unit of an item from the values read in it, or the first error; the
\* unit refers to the tree by paths (at: the item, data: the chosen data
\* child, attributes: the item's "$")
graphUnitFrom(at, type, id, itemData, attributes, source, target) ==
  IF id.err # "" THEN [err |-> id.err, unit |-> <<>>]
  ELSE IF itemData.err # "" THEN [err |-> itemData.err, unit |-> <<>>]
  ELSE IF attributes.err # "" THEN [err |-> attributes.err, unit |-> <<>>]
  ELSE IF type = "edge" /\ source.err # "" THEN [err |-> source.err, unit |-> <<>>]
  ELSE IF type = "edge" /\ target.err # "" THEN [err |-> target.err, unit |-> <<>>]
  ELSE [err |-> "",
        unit |-> <<[id |-> id.v.s, type |-> type,
                    source |-> IF type = "edge" THEN Str(source.v.s) ELSE Undef,
                    target |-> IF type = "edge" THEN Str(target.v.s) ELSE Undef,
                    at |-> at,
                    data |-> at \o <<Key("data"), Idx(itemData.pos - 1)>>,
                    attributes |-> Append(at, Key("$"))]>>]

\* the body of data.map in getGraphUnit for the item at position j (from 1)
graphUnitOf(item, j, type, dataKey) ==
  graphUnitFrom(Append(UnitsAt(type), Idx(j - 1)), type,
                getNestedString(item, <<Key("$"), Key("id")>>),
                itemDataOf(getNestedArray(item, <<Key("data")>>), dataKey),
                getNestedXMLField(item, <<Key("$")>>),
                getNestedString(item, <<Key("$"), Key("source")>>),
                getNestedString(item, <<Key("$"), Key("target")>>))

\* mutant: the units come out in reverse document order
mapped_reversed(items) ==
  IF FirstErr(items) # "" THEN [err |-> FirstErr(items), units |-> <<>>]
  ELSE [err |-> "", units |-> [j \in 1..Len(items) |-> items[Len(items) + 1 - j].unit[1]]]

\* the result of data.map: the units in order, or the first error thrown
mapped(items) ==
  IF FirstErr(items) # "" THEN [err |-> FirstErr(items), units |-> <<>>]
  ELSE [err |-> "", units |-> [j \in 1..Len(items) |-> items[j].unit[1]]]

\* getGraphUnit after graph[0][type], graph.key and the key id are read
graphUnitsOf(data, graphKeys, dataKey, type) ==
  IF data.err # "" \/ data.v.t = "u"
  THEN [err |-> "Data missing for " \o type \o "s", units |-> <<>>]
  ELSE IF data.v.t # "l" THEN [err |-> "TypeError", units |-> <<>>]
  ELSE IF graphKeys.err # "" \/ graphKeys.v.t # "l"
    THEN [err |-> "Key attributes are missing", units |-> <<>>]
  ELSE IF dataKey.err # "" THEN [err |-> dataKey.err, units |-> <<>>]
  ELSE mapped([j \in 1..Len(data.v.c) |-> graphUnitOf(data.v.c[j], j, type, dataKey.v.s)])

keyIdIn(graphKeys, type) ==
  IF graphKeys.err # "" \/ graphKeys.v.t # "l" THEN Throw("Key attributes are missing")
  ELSE findKeyId(graphKeys.v, "yfiles.type", type \o "graphics")

\* getGraphUnit: err, and in units one unit per element of the type
getGraphUnit(graph, type) ==
  graphUnitsOf(getNestedProperty(graph, UnitsAt(type)),
               getNestedProperty(graph, <<Key("graphml"), Key("key")>>),
               keyIdIn(getNestedProperty(graph, <<Key("graphml"), Key("key")>>), type),
               type)

\* mutant: the edges come before the nodes
nodesThenEdges_edgesFirst(nodes, edges) ==
  IF nodes.err # "" THEN nodes
  ELSE IF edges.err # "" THEN edges
  ELSE [err |-> "", units |-> edges.units \o nodes.units]

nodesThenEdges(nodes, edges) ==
  IF nodes.err # "" THEN nodes
  ELSE IF edges.err # "" THEN edges
  ELSE [err |-> "", units |-> nodes.units \o edges.units]

\* getAllGraphUnits: the nodes, then the edges
getAllGraphUnits(graph) ==
  nodesThenEdges(getGraphUnit(graph, "node"), getGraphUnit(graph, "edge"))

\* mutant: of several instances the first is taken
singletonOf_first(elements) ==
  IF elements.t # "l" THEN Throw("Provided data field is not an array")
  ELSE IF Len(elements.c) < 1
    THEN Throw("Multiple instances found from the data field")
  ELSE IF elements.c[1].t = "s"
    THEN Throw("Invalid element instance found from the data field")
  ELSE Ok(elements.c[1])

singletonOf(elements) ==
  IF elements.t # "l" THEN Throw("Provided data field is not an array")
  ELSE IF Len(elements.c) # 1
    THEN Throw("Multiple instances found from the data field")
  ELSE IF elements.c[1].t = "s"
    THEN Throw("Invalid element instance found from the data field")
  ELSE Ok(elements.c[1])

\* getXMLFieldFromSingletonArray: the only element of data[field]
getXMLFieldFromSingletonArray(data, field) == singletonOf(Prop(data, field))

\* the extracted unit of item with its unitType and, in elements, the path
\* of its child element
extractedUnitFrom(item, childElementTypes, childElement) ==
  IF Len(childElementTypes) # 1
  THEN [err |-> "Multiple child element types found from the data field", unit |-> <<>>]
  ELSE IF childElement.err # "" THEN [err |-> childElement.err, unit |-> <<>>]
  ELSE [err |-> "",
        unit |-> <<[id |-> item.id, type |-> item.type,
                    source |-> item.source, target |-> item.target,
                    at |-> item.at, data |-> item.data,
                    attributes |-> item.attributes,
                    unitType |-> childElementTypes[1],
                    elements |-> item.data \o <<Key(childElementTypes[1]), Idx(0)>>]>>]

childOf(item, data, childElementTypes) ==
  extractedUnitFrom(item, childElementTypes,
                    IF childElementTypes = <<>> THEN Throw("none")
                    ELSE getXMLFieldFromSingletonArray(data, childElementTypes[1]))

childTypesOf(item, data) ==
  childOf(item, data, SelectSeq(data.k, LAMBDA x : x # "$"))

\* the body of data.map in extractElements (called without `elements`)
extractedUnitOf(graph, item) ==
  childTypesOf(item, getNestedProperty(graph, item.data).v)

\* extractElements(data): err, and in units the extracted units
extractElements(graph, data) ==
  mapped([j \in 1..Len(data) |-> extractedUnitOf(graph, data[j])])

\* --------------------------------------------------------- field extractor
\* a schema section is a sequence of [f |-> output name, p |-> path]
HasField(fs, f) == \E j \in 1..Len(fs) : fs[j].f = f
PathOf(fs, f) == fs[CHOOSE j \in 1..Len(fs) : fs[j].f = f].p

\* { ...a, ...b }: the keys of a, then the new keys of b; the values of b win
Spread(a, b) ==
  [j \in 1..Len(a) |->
     IF HasField(b, a[j].f) THEN [f |-> a[j].f, p |-> PathOf(b, a[j].f)] ELSE a[j]]
    \o SelectSeq(b, LAMBDA e : ~HasField(a, e.f))

\* the `fields` of extractFields and of updateGraph for a unit type
FieldsOf(schema, type) == Spread(schema[type], schema.common)

LabelPath(type) ==
  IF type = "node" THEN <<Key("y:NodeLabel"), Singleton, Key("_")>>
  ELSE <<Key("y:EdgeLabel"), Singleton, Key("_")>>

\* mutant: one try/catch around all fields, a failing field nulls them all
outputUnit_recordScoped(element, fields, got, label) ==
  [id |-> element.id, type |-> element.type, unitType |-> element.unitType,
   label |-> OrNull(label),
   fields |-> [j \in 1..Len(fields) |->
                 [f |-> fields[j].f,
                  v |-> IF FirstErr(got) # "" THEN Null ELSE OrNull(got[j])]],
   data |-> element.data,
   source |-> IF element.type = "edge" THEN element.source ELSE Undef,
   target |-> IF element.type = "edge" THEN element.target ELSE Undef]

\* the output unit from what getNestedString gave for every field (got, in
\* the order of fields) and for the label, each inside its own try/catch
outputUnit(element, fields, got, label) ==
  [id |-> element.id, type |-> element.type, unitType |-> element.unitType,
   label |-> OrNull(label),
   fields |-> [j \in 1..Len(fields) |-> [f |-> fields[j].f, v |-> OrNull(got[j])]],
   data |-> element.data,
   source |-> IF element.type = "edge" THEN element.source ELSE Undef,
   target |-> IF element.type = "edge" THEN element.target ELSE Undef]

fieldsIn(element, fields, elements) ==
  outputUnit(element, fields,
             [j \in 1..Len(fields) |-> getNestedString(elements, fields[j].p)],
             getNestedString(elements, LabelPath(element.type)))

\* the body of elements.map in extractFields
outputUnitOf(graph, element, fieldsToExtract) ==
  fieldsIn(element, FieldsOf(fieldsToExtract, element.type),
           getNestedProperty(graph, element.elements).v)

outputUnits(graph, elements, fieldsToExtract) ==
  IF elements.err # "" THEN [err |-> elements.err, units |-> <<>>]
  ELSE [err |-> "",
        units |-> [j \in 1..Len(elements.units) |->
                     outputUnitOf(graph, elements.units[j], fieldsToExtract)]]

\* extractFields(data, fieldsToExtract): err, and the output units
extractFields(graph, data, fieldsToExtract) ==
  outputUnits(graph, extractElements(graph, data), fieldsToExtract)

fieldsOfUnits(graph, graphUnits, fieldsToExport) ==
  IF graphUnits.err # "" THEN graphUnits
  ELSE extractFields(graph, graphUnits.units, fieldsToExport)

\* getUnitsFromGraph(graph, {fieldsToExport}) without postProcess
getUnitsFromGraph(graph, fieldsToExport) ==
  fieldsOfUnits(graph, getAllGraphUnits(graph), fieldsToExport)

\* ------------------------------------------------------------ merge engine
\* the graph after r, the result of setNestedProperty on the object at `at`
writtenAt(graph, at, r) == [err |-> r.err, v |-> replaceAt(graph, at, r.v)]

\* setNestedProperty on the object that the path `at` refers to inside graph
setIn(graph, at, keys, value) ==
  writtenAt(graph, at, setNestedProperty(getNestedProperty(graph, at).v, keys, value))

\* mutant: every value is written as the empty string
OrEmpty_alwaysEmpty(val) == Leaf("")

\* mutant: null is written as text
OrEmpty_nullAsText(val) == Leaf(IF val.k = "str" THEN val.s ELSE "null")

\* value ?? ''
OrEmpty(val) == Leaf(IF val.k = "str" THEN val.s ELSE "")

FieldWarning(field) == [kind |-> "field", what |-> field]
RowWarning(id) == [kind |-> "row", what |-> id]

\* the state of the loops of updateGraph, [err, graph, warnings], after the
\* write w
wrote(acc, w) == [acc EXCEPT !.err = w.err, !.graph = w.v]

\* mutant: a field without schema entry is written under its own name
updateField_writeUnknown(acc, entry, element, fields) ==
  IF entry.v.k = "undef" THEN acc
  ELSE wrote(acc, setIn(acc.graph, element.elements,
                        IF HasField(fields, entry.f) THEN PathOf(fields, entry.f)
                        ELSE <<Key(entry.f)>>,
                        OrEmpty(entry.v)))

\* the body of the loop over Object.entries(unit.fields)
updateField(acc, entry, element, fields) ==
  IF entry.v.k = "undef" THEN acc
  ELSE IF ~HasField(fields, entry.f)
    THEN [acc EXCEPT !.warnings = Append(@, FieldWarning(entry.f))]
  ELSE wrote(acc, setIn(acc.graph, element.elements, PathOf(fields, entry.f),
                        OrEmpty(entry.v)))

\* the loop over Object.entries(unit.fields); an exception ends it
RECURSIVE updateFields(_, _, _, _)
updateFields(acc, entries, element, fields) ==
  IF entries = <<>> \/ acc.err # "" THEN acc
  ELSE updateFields(updateField(acc, Head(entries), element, fields),
                    Tail(entries), element, fields)

\* mutant: the value is written to the id attribute
setAttribute_id(graph, element, name, value) ==
  IF value.k = "undef" THEN graph
  ELSE replaceAt(graph, element.attributes,
                 PutProp(getNestedProperty(graph, element.attributes).v, "id",
                         Leaf(value.s)))

\* if (value !== undefined) element.attributes[name] = value
setAttribute(graph, element, name, value) ==
  IF value.k = "undef" THEN graph
  ELSE replaceAt(graph, element.attributes,
                 PutProp(getNestedProperty(graph, element.attributes).v, name,
                         Leaf(value.s)))

\* mutant: the source of the unit is written to the target attribute as well
updateEndpoints_sourceAsTarget(acc, unit, element) ==
  [acc EXCEPT !.graph =
     setAttribute(setAttribute(acc.graph, element, "source", unit.source),
                  element, "target", IF unit.target.k = "undef" THEN Undef ELSE unit.source)]

\* the source and the target of the unit
updateEndpoints(acc, unit, element) ==
  [acc EXCEPT !.graph =
     setAttribute(setAttribute(acc.graph, element, "source", unit.source),
                  element, "target", unit.target)]

\* mutant: the label is written whether the unit has one or not
updateLabel_always(acc, unit, element) ==
  wrote(acc, setIn(acc.graph, element.elements, LabelPath(element.type),
                   OrEmpty(unit.label)))

\* the label of the unit
updateLabel(acc, unit, element) ==
  IF unit.label.k = "undef" THEN acc
  ELSE wrote(acc, setIn(acc.graph, element.elements, LabelPath(element.type),
                        OrEmpty(unit.label)))

\* the body of the loop over newUnits for a unit that matched element
updateElement(acc, unit, element, extractedFs) ==
  updateFields(updateLabel(updateEndpoints(acc, unit, element), unit, element),
               unit.fields, element, FieldsOf(extractedFs, element.type))

\* mutant: a unit of unknown id throws instead of warning
updateFound_throwOnUnknown(acc, unit, elements, extractedFs, found) ==
  IF found = {} THEN [acc EXCEPT !.err = "Unknown input row"]
  ELSE updateElement(acc, unit, elements[Min(found)], extractedFs)

\* elements.find gave the first of the positions found, or nothing
updateFound(acc, unit, elements, extractedFs, found) ==
  IF found = {} THEN [acc EXCEPT !.warnings = Append(@, RowWarning(unit.id))]
  ELSE updateElement(acc, unit, elements[Min(found)], extractedFs)

\* mutant: an element matches when it has the id and the type of the unit
updateUnit_sameType(acc, unit, elements, extractedFs) ==
  updateFound(acc, unit, elements, extractedFs,
              {j \in 1..Len(elements) :
                 elements[j].id = unit.id /\ elements[j].type = unit.type})

\* the body of the loop over newUnits
updateUnit(acc, unit, elements, extractedFs) ==
  updateFound(acc, unit, elements, extractedFs,
              {j \in 1..Len(elements) : elements[j].id = unit.id})

\* mutant: of the records with one id only the first is applied
RECURSIVE updateUnits_firstOfId(_, _, _, _)
updateUnits_firstOfId(acc, newUnits, elements, extractedFs) ==
  IF newUnits = <<>> \/ acc.err # "" THEN acc
  ELSE updateUnits_firstOfId(updateUnit(acc, Head(newUnits), elements, extractedFs),
                             SelectSeq(Tail(newUnits), LAMBDA u : u.id # Head(newUnits).id),
                             elements, extractedFs)

\* mutant: the loop ends at the first warning
RECURSIVE updateUnits_untilWarning(_, _, _, _)
updateUnits_untilWarning(acc, newUnits, elements, extractedFs) ==
  IF newUnits = <<>> \/ acc.err # "" \/ acc.warnings # <<>> THEN acc
  ELSE updateUnits_untilWarning(updateUnit(acc, Head(newUnits), elements, extractedFs),
                                Tail(newUnits), elements, extractedFs)

\* the loop over newUnits; an exception ends it and keeps the writes made
RECURSIVE updateUnits(_, _, _, _)
updateUnits(acc, newUnits, elements, extractedFs) ==
  IF newUnits = <<>> \/ acc.err # "" THEN acc
  ELSE updateUnits(updateUnit(acc, Head(newUnits), elements, extractedFs),
                   Tail(newUnits), elements, extractedFs)

\* mutant: a merge that throws leaves the graph as it was
updateExtracted_rollback(graph, newUnits, extractedFs, elements) ==
  IF elements.err # "" THEN [err |-> elements.err, graph |-> graph, warnings |-> <<>>]
  ELSE IF updateUnits([err |-> "", graph |-> graph, warnings |-> <<>>],
                      newUnits, elements.units, extractedFs).err # ""
    THEN [err |-> updateUnits([err |-> "", graph |-> graph, warnings |-> <<>>],
                              newUnits, elements.units, extractedFs).err,
          graph |-> graph, warnings |-> <<>>]
  ELSE updateUnits([err |-> "", graph |-> graph, warnings |-> <<>>],
                   newUnits, elements.units, extractedFs)

updateExtracted(graph, newUnits, extractedFs, elements) ==
  IF elements.err # "" THEN [err |-> elements.err, graph |-> graph, warnings |-> <<>>]
  ELSE updateUnits([err |-> "", graph |-> graph, warnings |-> <<>>],
                   newUnits, elements.units, extractedFs)

updateCollected(graph, newUnits, extractedFs, oldUnits) ==
  IF oldUnits.err # "" THEN [err |-> oldUnits.err, graph |-> graph, warnings |-> <<>>]
  ELSE updateExtracted(graph, newUnits, extractedFs,
                       extractElements(graph, oldUnits.units))

\* updateGraph(graph, newUnits, extractedFields): err, the graph after the
\* call, and the warnings written to the console
updateGraph(graph, newUnits, extractedFs) ==
  updateCollected(graph, newUnits, extractedFs, getAllGraphUnits(graph))

\* ------------------------------------------------------ calls and results
NoFields == [f \in {} |-> <<>>]
NoSchema == [node |-> NoFields, edge |-> NoFields, common |-> NoFields]

\* the last call made: its name and arguments
Call(name, keys, value, kind, batch) ==
  [name |-> name, keys |-> keys, value |-> value, kind |-> kind, batch |-> batch]
\* what the last call returned or threw
Ret(err, v, units, warnings) ==
  [err |-> err, v |-> v, units |-> units, warnings |-> warnings]

\* ------------------------------------------- path accessor on generic trees
SeqsUpTo(S, n) == UNION {[1..m -> S] : m \in 0..n}
MapKeys == {<<>>, <<"x">>, <<"x", "y">>}
Grow(S) ==
  S \cup {List(cs) : cs \in SeqsUpTo(S, MaxListLen)}
    \cup UNION {{Map(ks, cs) : cs \in [1..Len(ks) -> S]} : ks \in MapKeys}
LongList == List([j \in 1..(MaxListLen + 3) |-> Leaf("a")])
\* the shape of a label path: object, singleton array, object
Nested == Map(<<"x">>, <<List(<<Map(<<"y">>, <<Leaf("a")>>)>>)>>)
Trees == Grow(Grow({Leaf("a")})) \cup {LongList, Map(<<"x">>, <<LongList>>), Nested}

Segments == {Key("x"), Key("y"), Singleton, Idx(0), Idx(1)}
Paths == SeqsUpTo(Segments, 3)
Values == {Leaf("b"), Map(<<"y">>, <<Leaf("b")>>)}

InitPath ==
  /\ tree \in Trees
  /\ before = tree
  /\ call = Call("init", <<>>, Undefined, "", <<>>)
  /\ ret = Ret("", Undefined, <<>>, <<>>)
  /\ extractedFields = NoSchema

\* the value a call returned, or the error it threw
Returned(r) == ret' = Ret(r.err, r.v, <<>>, <<>>)

\* getNestedProperty(tree, keys); after a set, the slot just written is read
Get(keys) ==
  /\ \/ call.name = "init"
     \/ call.name = "set" /\ keys = call.keys
  /\ Returned(getNestedProperty(tree, keys))
  /\ call' = Call("get", keys, Undefined, "", <<>>)
  /\ before' = tree
  /\ UNCHANGED <<tree, extractedFields>>

\* the tree a call left behind, and the error it threw
Mutated(r) ==
  /\ tree' = r.v
  /\ ret' = Ret(r.err, Undefined, <<>>, <<>>)

\* setNestedProperty(tree, keys, value)
Set(keys, value) ==
  /\ call.name = "init"
  /\ Mutated(setNestedProperty(tree, keys, value))
  /\ call' = Call("set", keys, value, "", <<>>)
  /\ before' = tree
  /\ UNCHANGED extractedFields

NextPath ==
  \/ \E keys \in Paths : Get(keys)
  \/ \E keys \in Paths, value \in Values : Set(keys, value)

SpecPath == InitPath /\ [][NextPath]_vars

\* ------------------------------------------------------- graphml documents
Attrs(names, values) == Map(names, [j \in 1..Len(values) |-> Leaf(values[j])])

\* <key id= for= yfiles.type=/> and a key that declares no yfiles.type
GraphKeys ==
  List(<<Map(<<"$">>, <<Attrs(<<"id", "for", "attr.name">>, <<"d5", "node", "description">>)>>),
         Map(<<"$">>, <<Attrs(<<"id", "for", "yfiles.type">>, <<"d6", "node", "nodegraphics">>)>>),
         Map(<<"$">>, <<Attrs(<<"id", "for", "yfiles.type">>, <<"d10", "edge", "edgegraphics">>)>>)>>)

DataChild(key, names, values) ==
  Map(<<"$">> \o names, <<Attrs(<<"key">>, <<key>>)>> \o values)

\* <node id=> with a description data child and the graphics data child
NodeElement(id, block) ==
  Map(<<"$", "data">>,
      <<Attrs(<<"id">>, <<id>>),
        List(<<DataChild("d5", <<>>, <<>>),
               DataChild("d6", <<"y:ShapeNode">>, <<List(<<block>>)>>)>>)>>)

EdgeElement(id, source, target, block) ==
  Map(<<"$", "data">>,
      <<Attrs(<<"id", "source", "target">>, <<id, source, target>>),
        List(<<DataChild("d10", <<"y:PolyLineEdge">>, <<List(<<block>>)>>)>>)>>)

\* xml2js gives a child list only to a parent that has such children
Graphml(nodes, edges) ==
  LET names == <<"$">> \o (IF nodes = <<>> THEN <<>> ELSE <<"node">>)
                      \o (IF edges = <<>> THEN <<>> ELSE <<"edge">>)
      values == <<Attrs(<<"id">>, <<"G">>)>>
                  \o (IF nodes = <<>> THEN <<>> ELSE <<List(nodes)>>)
                  \o (IF edges = <<>> THEN <<>> ELSE <<List(edges)>>)
  IN Map(<<"graphml">>,
         <<Map(<<"$", "key", "graph">>,
               <<Attrs(<<>>, <<>>), GraphKeys, List(<<Map(names, values)>>)>>)>>)

\* child elements of a y:ShapeNode
Fill == List(<<Map(<<"$">>, <<Attrs(<<"color">>, <<"A">>)>>)>>)
LabelElement(text) == Map(<<"_", "$">>, <<Leaf(text), Attrs(<<"visible">>, <<"true">>)>>)
NodeBlocks ==
  {Map(<<"y:Fill", "y:NodeLabel">>, <<Fill, List(<<LabelElement("L")>>)>>),
   \* a node without label
   Map(<<"y:Fill">>, <<Fill>>),
   \* a label element without text
   Map(<<"y:Fill", "y:NodeLabel">>,
       <<Fill, List(<<Map(<<"$">>, <<Attrs(<<"visible">>, <<"true">>)>>)>>)>>),
   \* two labels
   Map(<<"y:Fill", "y:NodeLabel">>,
       <<Fill, List(<<LabelElement("L"), LabelElement("M")>>)>>),
   \* a child element that is text only, no fill
   Map(<<"y:Foo", "y:NodeLabel">>, <<List(<<Leaf("t")>>), List(<<LabelElement("L")>>)>>)}

LineStyle == List(<<Map(<<"$">>, <<Attrs(<<"width">>, <<"1">>)>>)>>)
EdgeBlocks ==
  {Map(<<"y:LineStyle", "y:EdgeLabel">>, <<LineStyle, List(<<LabelElement("L")>>)>>),
   Map(<<"y:LineStyle">>, <<LineStyle>>)}

NodeId(j) == <<"n0", "n1", "n2", "n3">>[j]
EdgeId(j) == <<"e0", "e1", "e2">>[j]

\* documents: up to MaxNodes nodes, the first of any shape and the others
\* with a label or without; edges n0 -> last node when there are nodes
PlainBlocks ==
  {Map(<<"y:Fill", "y:NodeLabel">>, <<Fill, List(<<LabelElement("L")>>)>>),
   Map(<<"y:Fill">>, <<Fill>>)}
NodeBlockSeqs ==
  {<<>>} \cup {<<b>> \o r : b \in NodeBlocks, r \in SeqsUpTo(PlainBlocks, MaxNodes - 1)}
Documents ==
  UNION {{Graphml([j \in 1..Len(nb) |-> NodeElement(NodeId(j), nb[j])],
                  [j \in 1..Len(eb) |->
                     EdgeElement(EdgeId(j), "n0", NodeId(Len(nb)), eb[j])]) :
            eb \in IF nb = <<>> THEN {<<>>} ELSE SeqsUpTo(EdgeBlocks, MaxEdges)} :
         nb \in NodeBlockSeqs}

\* ----------------------------------------------------------------- schemas
ColorPath == <<Key("y:Fill"), Singleton, Key("$"), Key("color")>>
Color2Path == <<Key("y:Fill"), Singleton, Key("$"), Key("color2")>>
FooPath == <<Key("y:Foo"), Singleton>>
WidthPath == <<Key("y:LineStyle"), Singleton, Key("$"), Key("width")>>
Field(f, p) == [f |-> f, p |-> p]

Schemas ==
  {NoSchema,
   \* `tag` is declared for nodes and in common with different paths
   [node |-> <<Field("color", ColorPath), Field("foo", FooPath), Field("tag", ColorPath)>>,
    edge |-> <<Field("width", WidthPath)>>,
    common |-> <<Field("tag", Color2Path)>>],
   [node |-> <<Field("color", ColorPath)>>,
    edge |-> <<Field("width", WidthPath)>>,
    common |-> NoFields]}

\* ---------------------------------------------------------- edited records
TypeOfId(id) == IF id \in {"e0", "e1", "e2"} THEN "edge" ELSE "node"
Unit(id, label, source, fields) ==
  [id |-> id, type |-> TypeOfId(id), unitType |-> "", label |-> label,
   fields |-> fields, data |-> <<>>, source |-> source, target |-> Undef]
Cell(f, v) == [f |-> f, v |-> v]

Ids == {"n0", "n1", "e0", "n9"}
Edits(id) ==
  {Unit(id, Undef, Undef, <<Cell("color", Str("B"))>>),
   Unit(id, Undef, Undef, <<Cell("color", Null)>>),
   Unit(id, Undef, Undef, <<Cell("tag", Str("T"))>>),
   Unit(id, Undef, Undef, <<Cell("foo", Str("F"))>>),
   Unit(id, Undef, Undef, <<Cell("ghost", Str("G")), Cell("color", Str("B"))>>),
   Unit(id, Str("Z"), Undef, <<>>),
   Unit(id, Null, Undef, <<>>),
   Unit(id, Undef, Str("n1"), <<>>),
   Unit(id, Undef, Undef, <<Cell("color", Undef)>>)}
Edited == UNION {Edits(id) : id \in Ids}
\* batches of one record, and of one record with a record of unknown id
\* before or after it
Batches ==
  {<<u>> : u \in Edited}
    \cup UNION {{<<u, x>>, <<x, u>>} : u \in Edited \ Edits("n9"),
                                       x \in {Unit("n9", Str("Z"), Undef, <<>>)}}

\* ------------------------------------------------------------ the program
Init ==
  /\ tree \in Documents
  /\ before = tree
  /\ call = Call("init", <<>>, Undefined, "", <<>>)
  /\ ret = Ret("", Undefined, <<>>, <<>>)
  /\ extractedFields \in Schemas

\* the units a call returned, or the error it threw
ReturnedUnits(r) == ret' = Ret(r.err, Undefined, r.units, <<>>)

\* getGraphUnit(graph, kind)
Collect(kind) ==
  /\ call.name \in {"init", "merge"}
  /\ ReturnedUnits(getGraphUnit(tree, kind))
  /\ call' = Call("collect", <<>>, Undefined, kind, <<>>)
  /\ before' = tree
  /\ UNCHANGED <<tree, extractedFields>>

\* mutant: extract gives every entity without label an empty one
Extract_fillsLabels ==
  /\ call.name \in {"init", "merge"}
  /\ ReturnedUnits(getUnitsFromGraph(tree, extractedFields))
  /\ call' = Call("extract", <<>>, Undefined, "", <<>>)
  /\ before' = tree
  /\ tree' = updateGraph(tree, <<Unit("n0", Str(""), Undef, <<>>)>>, extractedFields).graph
  /\ UNCHANGED extractedFields

\* getUnitsFromGraph(graph, {fieldsToExport: extractedFields})
Extract ==
  /\ call.name \in {"init", "merge"}
  /\ ReturnedUnits(getUnitsFromGraph(tree, extractedFields))
  /\ call' = Call("extract", <<>>, Undefined, "", <<>>)
  /\ before' = tree
  /\ UNCHANGED <<tree, extractedFields>>

\* the graph a merge left behind, its warnings and the error it threw
Merged(r) ==
  /\ tree' = r.graph
  /\ ret' = Ret(r.err, Undefined, <<>>, r.warnings)

\* updateGraph(graph, batch, extractedFields); origin tells where the batch
\* comes from: "edited" records, or the units the last extract returned
\* (importExcel parses the file, merges once and serialises the result)
Update(batch, origin) ==
  /\ Merged(updateGraph(tree, batch, extractedFields))
  /\ call' = Call("merge", <<>>, Undefined, origin, batch)
  /\ before' = tree
  /\ UNCHANGED extractedFields

Merge ==
  /\ call.name = "init"
  /\ \E batch \in Batches : Update(batch, "edited")

MergeExtracted ==
  /\ call.name = "extract"
  /\ tree = before
  /\ ret.err = ""
  /\ Update(ret.units, "extracted")

Next ==
  \/ \E kind \in {"node", "edge"} : Collect(kind)
  \/ Extract
  \/ Merge
  \/ MergeExtracted

Spec == Init /\ [][Next]_vars

\* ------------------------------------------------- documents of any form
\* a node with a label and a fill
PlainNode(id) ==
  NodeElement(id, Map(<<"y:Fill", "y:NodeLabel">>, <<Fill, List(<<LabelElement("L")>>)>>))

\* documents without a key of a type (the <key> elements that are not of the
\* type <kind>graphics, or none), documents in which a node has no data
\* child, or two, with the key of the type, and documents in which the data
\* child of n1 has no child element, child elements of two kinds, two of
\* one kind, or one that is text
OddDocuments ==
  LET NodeWithData(id, children) ==
        Map(<<"$", "data">>, <<Attrs(<<"id">>, <<id>>), List(children)>>)
      Shape == Map(<<"y:Fill", "y:NodeLabel">>, <<Fill, List(<<LabelElement("L")>>)>>)
      Graphics == DataChild("d6", <<"y:ShapeNode">>, <<List(<<Shape>>)>>)
      Description == DataChild("d5", <<>>, <<>>)
      PlainEdge == EdgeElement("e0", "n0", "n1", Map(<<"y:LineStyle">>, <<LineStyle>>))
      WithKeys(doc, keys) ==
        Map(<<"graphml">>, <<PutProp(Prop(doc, "graphml"), "key", keys)>>)
      WithoutKeys(doc) ==
        Map(<<"graphml">>,
            <<Map(<<"$", "graph">>,
                  <<Prop(Prop(doc, "graphml"), "$"), Prop(Prop(doc, "graphml"), "graph")>>)>>)
      KeysWithout(kind) ==
        List(SelectSeq(GraphKeys.c,
                       LAMBDA k : Prop(Prop(k, "$"), "yfiles.type") # Leaf(kind \o "graphics")))
  IN
  {WithKeys(Graphml(<<PlainNode("n0"), PlainNode("n1")>>, <<PlainEdge>>), KeysWithout("node")),
   WithKeys(Graphml(<<PlainNode("n0"), PlainNode("n1")>>, <<PlainEdge>>), KeysWithout("edge")),
   WithKeys(Graphml(<<PlainNode("n0"), PlainNode("n1")>>, <<>>), KeysWithout("edge")),
   WithoutKeys(Graphml(<<PlainNode("n0"), PlainNode("n1")>>, <<PlainEdge>>)),
   Graphml(<<PlainNode("n0"), NodeWithData("n1", <<Description>>)>>, <<PlainEdge>>),
   Graphml(<<PlainNode("n0"), NodeWithData("n1", <<Graphics, Description, Graphics>>)>>,
           <<PlainEdge>>),
   Graphml(<<NodeWithData("n0", <<Graphics, Graphics>>), PlainNode("n1")>>, <<PlainEdge>>),
   Graphml(<<PlainNode("n0"), NodeWithData("n1", <<DataChild("d6", <<>>, <<>>)>>)>>,
           <<PlainEdge>>),
   Graphml(<<PlainNode("n0"),
             NodeWithData("n1", <<DataChild("d6", <<"y:ShapeNode", "y:GenericNode">>,
                                            <<List(<<Shape>>), List(<<Shape>>)>>)>>)>>,
           <<PlainEdge>>),
   Graphml(<<PlainNode("n0"),
             NodeWithData("n1", <<DataChild("d6", <<"y:ShapeNode">>,
                                            <<List(<<Shape, Shape>>)>>)>>)>>,
           <<PlainEdge>>),
   Graphml(<<PlainNode("n0"),
             NodeWithData("n1", <<DataChild("d6", <<"y:ShapeNode">>,
                                            <<List(<<Leaf("t")>>)>>)>>)>>,
           <<PlainEdge>>)}

InitAny ==
  /\ tree \in Documents \cup OddDocuments
  /\ before = tree
  /\ call = Call("init", <<>>, Undefined, "", <<>>)
  /\ ret = Ret("", Undefined, <<>>, <<>>)
  /\ extractedFields \in Schemas

\* the program on documents of any form
SpecAny == InitAny /\ [][Next]_vars

\* ------------------------------------------------------------------- excel
\* a row of the Content sheet as sheet_to_json gives it: the cells that are
\* not empty, in column order; a cell holds a string, null (#NULL!) or a
\* value of another type (a number, k = "num")
CellOf(row, f) ==
  IF \E j \in 1..Len(row) : row[j].f = f
  THEN row[CHOOSE j \in 1..Len(row) : row[j].f = f].v
  ELSE Undef
ColumnsOf(row) == [j \in 1..Len(row) |-> row[j].f]

\* [...new Set(names)]: each name once, in the order of first occurrence
RECURSIVE unique(_)
unique(names) ==
  IF names = <<>> THEN <<>>
  ELSE <<Head(names)>> \o unique(SelectSeq(Tail(names), LAMBDA x : x # Head(names)))

RECURSIVE flat(_)
flat(seqs) == IF seqs = <<>> THEN <<>> ELSE Head(seqs) \o flat(Tail(seqs))

getAllColumnNames(rows) == unique(flat([j \in 1..Len(rows) |-> ColumnsOf(rows[j])]))

\* XlsxOptions: include and exclude are lists or undefined
NoList == [k |-> "undef", l |-> <<>>]
Listed(l) == [k |-> "list", l |-> l]
Contains(l, x) == \E j \in 1..Len(l) : l[j] = x

\* mutant: exclude is applied although include is set
filterProperties_excludeToo(properties, options) ==
  IF options.include.k # "undef"
  THEN SelectSeq(properties,
                 LAMBDA f : Contains(options.include.l, f)
                            /\ ~Contains(options.exclude.l, f))
  ELSE IF options.exclude.k # "undef"
    THEN SelectSeq(properties, LAMBDA f : ~Contains(options.exclude.l, f))
  ELSE properties

filterProperties(properties, options) ==
  IF options.include.k # "undef"
  THEN SelectSeq(properties, LAMBDA f : Contains(options.include.l, f))
  ELSE IF options.exclude.k # "undef"
    THEN SelectSeq(properties, LAMBDA f : ~Contains(options.exclude.l, f))
  ELSE properties

\* id[0] of the ids in use; "x" for any other first character
FirstChar(id) ==
  IF id \in {"n0", "n1", "n2", "n3", "n9"} THEN "n"
  ELSE IF id \in {"e0", "e1", "e2"} THEN "e"
  ELSE "x"

\* the first cell of rest that is neither a string nor null, 0 when none
FirstInvalid(rest) ==
  IF \E j \in 1..Len(rest) : rest[j].v.k \notin {"str", "null"}
  THEN Min({j \in 1..Len(rest) : rest[j].v.k \notin {"str", "null"}})
  ELSE 0

validated(id, type, source, target, rest) ==
  IF id.k # "str" THEN "Mandatory id column is missing"
  ELSE IF type \notin {Str("node"), Str("edge")} /\ FirstChar(id.s) \notin {"n", "e"}
    THEN "Type column is missing and not possible to deduce type from id"
  ELSE IF source.k \notin {"str", "undef"}
    THEN "Invalid source column type, must be string or undefined"
  ELSE IF target.k \notin {"str", "undef"}
    THEN "Invalid target column type, must be string or undefined"
  ELSE IF FirstInvalid(rest) # 0
    THEN "Invalid type in " \o rest[FirstInvalid(rest)].f \o " column"
  ELSE ""

\* validateRow: err, or id, deduced type, source, target and the other cells
validateRow(row) ==
  [err |-> validated(CellOf(row, "id"), CellOf(row, "type"), CellOf(row, "source"),
                     CellOf(row, "target"),
                     SelectSeq(row, LAMBDA c : c.f \notin {"id", "type", "source", "target"})),
   id |-> CellOf(row, "id").s,
   type |-> IF CellOf(row, "type") = Str("node") \/ FirstChar(CellOf(row, "id").s) = "n"
            THEN "node" ELSE "edge",
   source |-> CellOf(row, "source"),
   target |-> CellOf(row, "target"),
   validated |-> SelectSeq(row, LAMBDA c : c.f \notin {"id", "type", "source", "target"})]

\* the unit of a validated row, after removeUndefined
unitFrom(v) ==
  IF v.err # "" THEN [err |-> v.err, unit |-> <<>>]
  ELSE [err |-> "",
        unit |-> <<[id |-> v.id, type |-> v.type,
                    unitType |-> IF CellOf(v.validated, "unitType").k = "str"
                                 THEN CellOf(v.validated, "unitType").s ELSE "",
                    label |-> CellOf(v.validated, "label"),
                    fields |-> SelectSeq(v.validated,
                                         LAMBDA c : c.f \notin {"unitType", "label"}),
                    data |-> <<>>,
                    source |-> v.source, target |-> v.target]>>]

\* the postProcess functions of the options ("none": no function is given)
\* and what they return for a unit: a unit, null or undefined
postProcess(name, unit) ==
  IF name = "same" THEN [k |-> "unit", u |-> unit]
  ELSE IF name = "relabel" THEN [k |-> "unit", u |-> [unit EXCEPT !.label = Str("P")]]
  ELSE IF name = "dropEdges"
    THEN (IF unit.type = "edge" THEN [k |-> "null", u |-> <<>>]
          ELSE [k |-> "unit", u |-> unit])
  ELSE IF name = "dropFirstNode"
    THEN (IF unit.id = "n0" THEN [k |-> "undefined", u |-> <<>>]
          ELSE [k |-> "unit", u |-> unit])
  ELSE [k |-> "null", u |-> <<>>]

\* mutant: a unit for which postProcess gives null is kept as it was
pushed_keepDropped(acc, unit, postProcessedUnit) ==
  IF postProcessedUnit.k = "unit" THEN Append(acc, postProcessedUnit.u)
  ELSE Append(acc, unit)

\* if (postProcessedUnit != null) acc.push(postProcessedUnit)
pushed(acc, unit, postProcessedUnit) ==
  IF postProcessedUnit.k = "unit" THEN Append(acc, postProcessedUnit.u) ELSE acc

\* units.reduce((acc, unit) => ..., acc)
RECURSIVE reduce(_, _, _)
reduce(acc, units, name) ==
  IF units = <<>> THEN acc
  ELSE reduce(pushed(acc, Head(units), postProcess(name, Head(units))), Tail(units), name)

\* the units of getUnitsFromGraph after options.postProcess
postProcessedUnits(r, name) ==
  IF r.err # "" \/ name = "none" THEN r
  ELSE [err |-> "", units |-> reduce(<<>>, r.units, name)]

\* the units of importXlsx after options.postProcess
postProcessedRows(r, name) ==
  IF r.err # "" \/ name = "none" THEN r
  ELSE [err |-> "", units |-> reduce(<<>>, r.units, name)]

\* rows.map in importXlsx: the cells of the included columns are validated
unitsOfRows(rows, includedColumns) ==
  mapped([j \in 1..Len(rows) |->
            unitFrom(validateRow(SelectSeq(rows[j],
                                           LAMBDA c : Contains(includedColumns, c.f))))])

\* importXlsx(xlsx, options): err, or the units; the workbook is what
\* read(xlsx) gives: its sheets, the rows of Content, yedHash of Metadata
importXlsx(workbook, options) ==
  IF "Metadata" \notin workbook.sheets
  THEN [err |-> "\"Metadata\"-sheet not present", units |-> <<>>]
  ELSE IF "Content" \notin workbook.sheets
    THEN [err |-> "\"Graphml\"-sheet not present", units |-> <<>>]
  ELSE postProcessedRows(
         unitsOfRows(workbook.rows,
                     filterProperties(getAllColumnNames(workbook.rows),
                                      options.fieldsToImport)),
         options.postProcess)

\* mutant: { ...rest, ...fields }
allFields_fieldsLast(fields, rest) ==
  [j \in 1..Len(rest) |->
     Cell(rest[j].f, IF Contains(ColumnsOf(fields), rest[j].f)
                     THEN CellOf(fields, rest[j].f) ELSE rest[j].v)]
    \o SelectSeq(fields, LAMBDA c : ~Contains(ColumnsOf(rest), c.f))

\* { ...fields, ...rest }: the keys of fields, then the new keys of rest;
\* rest wins
allFields(fields, rest) ==
  [j \in 1..Len(fields) |->
     Cell(fields[j].f, IF Contains(ColumnsOf(rest), fields[j].f)
                       THEN CellOf(rest, fields[j].f) ELSE fields[j].v)]
    \o SelectSeq(rest, LAMBDA c : ~Contains(ColumnsOf(fields), c.f))

\* { fields, data, ...rest } = unit: the other properties of an output unit
restOf(unit) ==
  <<Cell("id", Str(unit.id)), Cell("type", Str(unit.type)),
    Cell("unitType", Str(unit.unitType)), Cell("label", unit.label)>>
    \o (IF unit.source = Undef THEN <<>> ELSE <<Cell("source", unit.source)>>)
    \o (IF unit.target = Undef THEN <<>> ELSE <<Cell("target", unit.target)>>)

\* Object.fromEntries(includedProperties.map(prop => [prop, allFields[prop]]))
entriesOf(cells, includedProperties) ==
  [j \in 1..Len(includedProperties) |->
     Cell(includedProperties[j], CellOf(cells, includedProperties[j]))]

\* the body of units.map in createXlsx
rowOf(cells, options) ==
  entriesOf(cells, filterProperties(ColumnsOf(cells), options))

DEFAULT_COLUMNS == <<"type", "id", "source", "target", "unitType", "label">>

\* the header of the sheet: the default columns present, then the others
headerOf(columnsPresent) ==
  SelectSeq(DEFAULT_COLUMNS, LAMBDA c : Contains(columnsPresent, c))
    \o SelectSeq(columnsPresent, LAMBDA c : ~Contains(DEFAULT_COLUMNS, c))

sheetOf(rows, metadata) ==
  [rows |-> rows, header |-> headerOf(getAllColumnNames(rows)), metadata |-> metadata]

\* createXlsx(units, metadata, options): what is handed to json_to_sheet
\* and aoa_to_sheet (rows, header, metadata)
createXlsx(units, metadata, options) ==
  sheetOf([j \in 1..Len(units) |->
             rowOf(allFields(units[j].fields, restOf(units[j])), options)],
          metadata)

exported(units, hash, options) ==
  IF units.err # "" THEN [err |-> units.err, units |-> <<>>, xlsx |-> [rows |-> <<>>, header |-> <<>>, metadata |-> <<>>]]
  ELSE [err |-> "", units |-> units.units,
        xlsx |-> createXlsx(units.units,
                            <<[yedHash |-> hash, extractedFields |-> options.fieldsToExport]>>,
                            options.columnsToExcel)]

\* exportExcel(inputGraphmlFile, options): graph and hash are what readFile
\* and parseGraphmlFormat give for the file
exportExcel(graph, hash, options) ==
  exported(postProcessedUnits(getUnitsFromGraph(graph, options.fieldsToExport),
                              options.postProcess),
           hash, options)

HashWarning == [kind |-> "hash", what |-> ""]

\* mutant: a graph file that does not match the workbook is refused
verified_refused(graph, hash, yedHash, units, merged) ==
  IF hash # yedHash
  THEN [err |-> "Provided graphml file not matching", graph |-> graph,
        warnings |-> <<>>, units |-> units]
  ELSE [err |-> merged.err, graph |-> merged.graph,
        warnings |-> merged.warnings, units |-> units]

\* the hash is compared, then the graph is updated (merged)
verified(graph, hash, yedHash, units, merged) ==
  [err |-> merged.err, graph |-> merged.graph,
   warnings |-> (IF hash # yedHash THEN <<HashWarning>> ELSE <<>>) \o merged.warnings,
   units |-> units]

imported(graph, hash, workbook, x) ==
  IF x.err # "" THEN [err |-> x.err, graph |-> graph, warnings |-> <<>>, units |-> <<>>]
  ELSE verified(graph, hash, workbook.yedHash, x.units,
                updateGraph(graph, x.units, workbook.extractedFields))

\* importExcel(inputGraphmlFile, inputXlsxFile, options): err, the graph
\* object after updateGraph, the warnings and the units of the workbook
importExcel(graph, hash, workbook, options) ==
  imported(graph, hash, workbook, importXlsx(workbook, options))

\* ------------------------------------------------- export and import
\* the column filters of the options
Filters ==
  LET Filter(include, exclude) == [include |-> include, exclude |-> exclude]
  IN
  {Filter(NoList, NoList),
   Filter(Listed(<<"id", "label">>), NoList),
   Filter(Listed(<<"label">>), NoList),
   Filter(Listed(<<>>), NoList),
   Filter(Listed(<<"id", "color">>), Listed(<<"id", "color">>)),
   Filter(NoList, Listed(<<"label">>)),
   Filter(NoList, Listed(<<"color", "source", "target">>))}
PostProcessors == {"none", "same", "relabel", "dropEdges", "dropFirstNode", "dropAll"}

\* workbooks (yedHash h1): edited rows of n0, n1 and e0; rows without type;
\* a number in a field; a missing sheet; an id that is no string or tells
\* no type; an id that is not in the graph; rows whose type is not the one
\* the id tells
Workbooks(fields) ==
  LET Workbook(sheets, rows) ==
        [sheets |-> sheets, rows |-> rows, yedHash |-> "h1", extractedFields |-> fields]
      Both == {"Content", "Metadata"}
  IN
  {Workbook(Both,
            <<<<Cell("type", Str("node")), Cell("id", Str("n0")),
                Cell("unitType", Str("y:ShapeNode")), Cell("label", Str("Z")),
                Cell("color", Str("B"))>>,
              <<Cell("type", Str("node")), Cell("id", Str("n1")),
                Cell("label", Null), Cell("color", Str("C"))>>,
              <<Cell("type", Str("edge")), Cell("id", Str("e0")),
                Cell("source", Str("n1")), Cell("target", Str("n1")),
                Cell("label", Str("E")), Cell("width", Str("2"))>>>>),
   Workbook(Both,
            <<<<Cell("id", Str("n0")), Cell("color", Str("B"))>>,
              <<Cell("id", Str("e0")), Cell("label", Str("E"))>>>>),
   Workbook(Both,
            <<<<Cell("id", Str("n0")), Cell("label", Str("Z")),
                Cell("color", [k |-> "num", s |-> ""])>>>>),
   Workbook({"Content"}, <<<<Cell("id", Str("n0")), Cell("label", Str("Z"))>>>>),
   Workbook({"Metadata"}, <<>>),
   Workbook(Both,
            <<<<Cell("id", Str("n0")), Cell("label", Str("Z"))>>,
              <<Cell("id", Str("x1")), Cell("label", Str("Y"))>>>>),
   Workbook(Both,
            <<<<Cell("id", Str("n9")), Cell("label", Str("Y"))>>,
              <<Cell("id", Str("n1")), Cell("label", Str("Z")), Cell("color", Str("B"))>>>>),
   Workbook(Both,
            <<<<Cell("type", Str("edge")), Cell("id", Str("n0")), Cell("label", Str("Z"))>>,
              <<Cell("type", Str("node")), Cell("id", Str("e0")), Cell("label", Str("E"))>>>>)}

\* two documents of two nodes and an edge; in the second n0 has no label
ExcelDocuments ==
  LET LabelledEdge ==
        EdgeElement("e0", "n0", "n1",
                    Map(<<"y:LineStyle", "y:EdgeLabel">>,
                        <<LineStyle, List(<<LabelElement("L")>>)>>))
  IN
  {Graphml(<<PlainNode("n0"), PlainNode("n1")>>, <<LabelledEdge>>),
   Graphml(<<NodeElement("n0", Map(<<"y:Fill">>, <<Fill>>)), PlainNode("n1")>>,
           <<LabelledEdge>>)}

\* the calls of index.ts are recorded with their arguments (options, hash,
\* workbook) and what they give (units, warnings, xlsx)
\* the schemas, and one whose fields have the names of fixed properties
InitExcel ==
  /\ tree \in ExcelDocuments
  /\ before = tree
  /\ call = Call("init", <<>>, Undefined, "", <<>>)
  /\ ret = Ret("", Undefined, <<>>, <<>>)
  /\ extractedFields \in Schemas \cup {[node |-> <<Field("label", ColorPath)>>,
                                         edge |-> <<Field("source", WidthPath)>>,
                                         common |-> <<Field("id", Color2Path)>>]}

\* exportExcel(file, {fieldsToExport, columnsToExcel, postProcess})
ExportExcel(columns, name, hash) ==
  /\ call.name = "init"
  /\ \E r \in {exportExcel(tree, hash,
                           [fieldsToExport |-> extractedFields, columnsToExcel |-> columns,
                            postProcess |-> name])} :
       ret' = [err |-> r.err, v |-> Undefined, units |-> r.units, warnings |-> <<>>,
               xlsx |-> r.xlsx]
  /\ call' = [name |-> "export", keys |-> <<>>, value |-> Undefined, kind |-> "",
              batch |-> <<>>,
              options |-> [fieldsToExport |-> extractedFields, columnsToExcel |-> columns,
                           postProcess |-> name],
              hash |-> hash, workbook |-> <<>>]
  /\ before' = tree
  /\ UNCHANGED <<tree, extractedFields>>

\* importExcel(file, workbook, {fieldsToImport, postProcess}); the graph
\* file is parsed anew by every import, and the graph object handed to
\* convertToGraphmlFormat is kept in v
ImportExcel(workbook, columns, name, hash) ==
  /\ call.name = "init"
  /\ \E r \in {importExcel(tree, hash, workbook,
                           [fieldsToImport |-> columns, postProcess |-> name])} :
       /\ tree' = r.graph
       /\ ret' = [err |-> r.err, v |-> IF r.err = "" THEN r.graph ELSE Undefined,
                  units |-> r.units, warnings |-> r.warnings,
                  xlsx |-> [rows |-> <<>>, header |-> <<>>, metadata |-> <<>>]]
  /\ call' = [name |-> "import", keys |-> <<>>, value |-> Undefined, kind |-> "",
              batch |-> <<>>,
              options |-> [fieldsToImport |-> columns, postProcess |-> name],
              hash |-> hash, workbook |-> workbook]
  /\ before' = tree
  /\ UNCHANGED extractedFields

NextExcel ==
  \/ \E columns \in Filters, name \in PostProcessors, hash \in {"h1", "h2"} :
       ExportExcel(columns, name, hash)
  \/ \E workbook \in Workbooks(extractedFields), columns \in Filters,
        name \in PostProcessors, hash \in {"h1", "h2"} :
       ImportExcel(workbook, columns, name, hash)

SpecExcel == InitExcel /\ [][NextExcel]_vars

\* ------------------------------------------- batches of several records
\* documents of two nodes and an edge: all with a label; n0 without label;
\* the edge with the id of node n1
InitBatch ==
  LET Block(label) == Map(<<"y:LineStyle", "y:EdgeLabel">>,
                          <<LineStyle, List(<<LabelElement(label)>>)>>)
  IN
  /\ tree \in {Graphml(<<PlainNode("n0"), PlainNode("n1")>>,
                       <<EdgeElement("e0", "n0", "n1", Block("L"))>>),
                Graphml(<<NodeElement("n0", Map(<<"y:Fill">>, <<Fill>>)), PlainNode("n1")>>,
                        <<EdgeElement("e0", "n0", "n1", Block("L"))>>),
                Graphml(<<PlainNode("n0"), PlainNode("n1")>>,
                        <<EdgeElement("n1", "n0", "n1", Block("K"))>>)}
  /\ before = tree
  /\ call = Call("init", <<>>, Undefined, "", <<>>)
  /\ ret = Ret("", Undefined, <<>>, <<>>)
  /\ extractedFields \in Schemas

\* updateGraph with a batch of two or three records: records of n0, n1 and
\* e0 that set a field, several slots, or a slot the entity may not have; a
\* record of type edge with the id of a node; a record of unknown id
MergeBatch ==
  LET Rec(id, type, label, source, target, fields) ==
        [id |-> id, type |-> type, unitType |-> "", label |-> label,
         fields |-> fields, data |-> <<>>, source |-> source, target |-> target]
      Few == {Rec("n0", "node", Undef, Undef, Undef, <<Cell("color", Str("B"))>>),
              Rec("n0", "node", Str("Y"), Str("n1"), Undef, <<>>),
              Rec("n0", "node", Undef, Undef, Undef,
                  <<Cell("color", Str("D")), Cell("foo", Str("F"))>>),
              Rec("n1", "node", Str("Z"), Undef, Undef, <<>>),
              Rec("e0", "edge", Str("E"), Str("n1"), Str("n0"), <<>>)}
      More == {Rec("n0", "node", Str("Z"), Undef, Undef, <<Cell("color", Str("C"))>>),
               Rec("n1", "node", Undef, Undef, Undef, <<Cell("color", Str("C"))>>),
               Rec("e0", "edge", Undef, Undef, Undef, <<Cell("width", Str("2"))>>),
               Rec("n1", "edge", Str("W"), Undef, Undef, <<Cell("width", Str("3"))>>),
               Rec("n9", "node", Str("Z"), Undef, Undef, <<>>)}
  IN
  /\ call.name = "init"
  /\ \E batch \in {<<u, v>> : u \in Few \cup More, v \in Few \cup More}
                    \cup {<<u, v, w>> : u \in Few, v \in Few, w \in Few} :
       Update(batch, "edited")

SpecBatch == InitBatch /\ [][MergeBatch]_vars

\* ================================================================ claims
NotSingletonErr == "Accessing singleton array which is not singleton"

\* the last segment fits the value the other segments resolve to: a string
\* key of an object, an index inside an array, the selector of a one-element array
ValidPath(t, keys) ==
  /\ Len(keys) >= 1
  /\ LET par == getNestedProperty(t, Front(keys))
         last == Last(keys)
     IN /\ par.err = ""
        /\ \/ par.v.t = "m" /\ ~last.num
           \/ par.v.t = "l" /\ last.num /\ last.i < Len(par.v.c)
           \/ par.v.t = "l" /\ last = Singleton /\ Len(par.v.c) = 1

\* C9 as stated: set succeeds on every valid path whose intermediate
\* segments exist, whatever the last segment addresses (object key, array
\* index or singleton selector), and get then returns the value set.
C9_SetGetAnyParent ==
  (call.name = "set" /\ ValidPath(before, call.keys))
    => /\ ret.err = ""
       /\ getNestedProperty(tree, call.keys) = Ok(call.value)

\* C9 amended: when all but the last segment resolve to an object and the
\* last segment is a string key, set succeeds and get returns the value set;
\* when they resolve to an array, set throws and the tree is unchanged.
C9_SetGetObjectParent ==
  (call.name = "set" /\ Len(call.keys) >= 1)
    => LET par == getNestedProperty(before, Front(call.keys))
       IN /\ (par.err = "" /\ par.v.t = "m" /\ ~Last(call.keys).num)
               => /\ ret.err = ""
                  /\ getNestedProperty(tree, call.keys) = Ok(call.value)
          /\ (par.err = "" /\ par.v.t = "l")
               => /\ ret.err = "Property not IXMLField"
                  /\ tree = before

C9_Witness ==
  /\ call.name = "set"
  /\ before = Nested
  /\ call.keys = <<Key("x"), Singleton, Key("y")>>
  /\ ret.err = ""
  /\ tree # before

\* C10: in get, the singleton selector on an array descends into the only
\* element when the array has exactly one element and throws for every
\* other length; the first element of a longer array is never returned.
C10_SingletonSelector ==
  call.name = "get"
    => \A j \in 1..Len(call.keys) :
         LET cur == getNestedProperty(before, SubSeq(call.keys, 1, j - 1))
             rest == SubSeq(call.keys, j + 1, Len(call.keys))
         IN (cur.err = "" /\ cur.v.t = "l" /\ call.keys[j] = Singleton)
              => IF Len(cur.v.c) = 1
                 THEN LET r == getNestedProperty(cur.v.c[1], rest)
                      IN ret.err = r.err /\ ret.v = r.v
                 ELSE ret.err = NotSingletonErr

C10_Witness ==
  /\ call.name = "get"
  /\ tree = Map(<<"x">>, <<LongList>>)
  /\ call.keys = <<Key("x"), Singleton>>
  /\ ret.err = NotSingletonErr

\* ------------------------------------------------- entities of a document
\* the raw elements of a kind, in document order
RawElements(t, kind) ==
  LET g == Prop(Prop(t, "graphml"), "graph").c[1]
  IN IF KeyPos(g, kind) = 0 THEN <<>> ELSE Prop(g, kind).c
RawId(e) == Prop(Prop(e, "$"), "id").s

\* the collected entities with the paths of their child elements
Collects(t) ==
  /\ getAllGraphUnits(t).err = ""
  /\ extractElements(t, getAllGraphUnits(t).units).err = ""
ElementsOf(t) == extractElements(t, getAllGraphUnits(t).units).units
ElementTree(t, e) == getNestedProperty(t, e.elements).v

\* value of field f in an output unit
FieldValue(unit, f) ==
  unit.fields[CHOOSE j \in 1..Len(unit.fields) : unit.fields[j].f = f].v

\* C5 as stated: collect returns one entity per raw element of the kind, in
\* document order, for every count of raw elements, zero included.
C5_OnePerElementAnyCount ==
  call.name = "collect"
    => LET raw == RawElements(tree, call.kind)
       IN /\ ret.err = ""
          /\ Len(ret.units) = Len(raw)
          /\ \A j \in 1..Len(raw) : ret.units[j].id = RawId(raw[j])

\* C5 amended: for a document with at least one raw element of the kind,
\* collect returns one entity per raw element, the j-th with the id of the
\* j-th raw element; for a document with no element of the kind it throws
\* ("Data missing") and returns nothing.
C5_OnePerElement ==
  call.name = "collect"
    => LET raw == RawElements(tree, call.kind)
       IN IF raw = <<>>
          THEN ret.err = "Data missing for " \o call.kind \o "s" /\ ret.units = <<>>
          ELSE /\ ret.err = ""
               /\ Len(ret.units) = Len(raw)
               /\ \A j \in 1..Len(raw) :
                    /\ ret.units[j].id = RawId(raw[j])
                    /\ ret.units[j].type = call.kind

C5_Witness ==
  /\ call.name = "collect"
  /\ call.kind = "node"
  /\ Len(RawElements(tree, "node")) = 2
  /\ Len(ret.units) = 2
  /\ ret.units[1].id = "n0"
  /\ ret.units[2].id = "n1"

\* fields declared for the kind and in common with different paths
Collides(schema, type, f) ==
  /\ HasField(schema[type], f)
  /\ HasField(schema.common, f)
  /\ PathOf(schema[type], f) # PathOf(schema.common, f)

\* C3: a field name declared under the entity's kind and under common with
\* different paths is extracted from, and merged into, the kind-specific path.
C3_KindSpecificWins ==
  /\ (call.name = "extract" /\ ret.err = "")
       => \A j \in 1..Len(ret.units) :
            \A h \in 1..Len(ret.units[j].fields) :
              LET f == ret.units[j].fields[h].f
                  e == ElementsOf(tree)[j]
              IN Collides(extractedFields, e.type, f)
                   => ret.units[j].fields[h].v =
                        OrNull(getNestedString(ElementTree(tree, e),
                                               PathOf(extractedFields[e.type], f)))
  /\ (call.name = "merge" /\ ret.err = "" /\ Len(call.batch) = 1)
       => \A j \in 1..Len(ElementsOf(before)) :
            \A h \in 1..Len(call.batch[1].fields) :
              LET c == call.batch[1].fields[h]
                  e == ElementsOf(before)[j]
              IN (e.id = call.batch[1].id /\ c.v.k = "str"
                  /\ Collides(extractedFields, e.type, c.f))
                   => getNestedProperty(ElementTree(tree, e),
                                        PathOf(extractedFields[e.type], c.f))
                        = Ok(Leaf(c.v.s))

\* the schema without output field f
Without(schema, f) ==
  [s \in {"node", "edge", "common"} |-> SelectSeq(schema[s], LAMBDA e : e.f # f)]

\* C4: when the path of one schema field does not resolve to a string in an
\* entity, extract still succeeds, the record has null for that field, and
\* every other field of the record has the value it has when the failing
\* field is not in the schema.
C4_FieldScopedErrors ==
  (call.name = "extract" /\ Collects(tree))
    => /\ ret.err = ""
       /\ Len(ret.units) = Len(ElementsOf(tree))
       /\ \A j \in 1..Len(ret.units) :
            LET e == ElementsOf(tree)[j]
                fields == FieldsOf(extractedFields, e.type)
            IN \A h \in 1..Len(fields) :
                 getNestedString(ElementTree(tree, e), fields[h].p).err # ""
                   => /\ FieldValue(ret.units[j], fields[h].f) = Null
                      /\ LET others ==
                               getUnitsFromGraph(tree, Without(extractedFields, fields[h].f))
                         IN \A g \in 1..Len(fields) :
                              g # h => FieldValue(ret.units[j], fields[g].f)
                                         = FieldValue(others.units[j], fields[g].f)

\* a node without y:Foo: `foo` fails while `color` resolves
C4_Witness ==
  /\ call.name = "extract"
  /\ ret.err = ""
  /\ \E j \in 1..Len(ret.units) :
       /\ Len(ret.units[j].fields) = 3
       /\ FieldValue(ret.units[j], "foo") = Null
       /\ FieldValue(ret.units[j], "color") = Str("A")

\* ------------------------------------------------------- merge claims
\* position of the collected entity that a unit id matches, 0 when none
MatchIndex(t, id) ==
  LET es == ElementsOf(t)
      found == {j \in 1..Len(es) : es[j].id = id}
  IN IF found = {} THEN 0 ELSE CHOOSE j \in found : \A h \in found : j <= h

\* the record supplies one field and nothing else
OnlyField(u) ==
  /\ u.label = Undef /\ u.source = Undef /\ u.target = Undef
  /\ Len(u.fields) = 1

\* the paths the schema declares for output field f of an entity type
DeclaredPaths(schema, type, f) ==
  UNION {{schema[sec][j].p : j \in {h \in 1..Len(schema[sec]) : schema[sec][h].f = f}} :
           sec \in {type, "common"}}

\* trees a and b are structurally equal everywhere but in the slot keys
\* addresses (which may exist in one of them only)
RECURSIVE SameExceptAt(_, _, _)
SameExceptAt(a, b, keys) ==
  IF keys = <<>> THEN TRUE
  ELSE LET key == Head(keys)
           pos == IF key.num THEN key.i + 1 ELSE 1
       IN IF a.t = "l"
          THEN /\ b.t = "l"
               /\ Len(a.c) = Len(b.c)
               /\ (key.num \/ key = Singleton)
               /\ \A j \in 1..Len(a.c) :
                    IF j = pos THEN SameExceptAt(a.c[j], b.c[j], Tail(keys))
                    ELSE a.c[j] = b.c[j]
          ELSE IF a.t = "m"
          THEN /\ b.t = "m"
               /\ ~key.num
               /\ SelectSeq(a.k, LAMBDA x : x # key.s) = SelectSeq(b.k, LAMBDA x : x # key.s)
               /\ \A j \in 1..Len(a.k) : a.k[j] # key.s => Prop(b, a.k[j]) = a.c[j]
               /\ IF KeyPos(a, key.s) # 0 /\ KeyPos(b, key.s) # 0
                  THEN SameExceptAt(Prop(a, key.s), Prop(b, key.s), Tail(keys))
                  ELSE Tail(keys) = <<>>
          ELSE a = b

\* C1: after the merge of a single record that supplies only field f for
\* entity e, the tree equals the tree before everywhere but in the slot that
\* a schema path of f addresses inside e.
C1_MergeFrame ==
  (call.name = "merge" /\ Len(call.batch) = 1 /\ OnlyField(call.batch[1]))
    => \/ tree = before
       \/ /\ Collects(before)
          /\ MatchIndex(before, call.batch[1].id) # 0
          /\ LET e == ElementsOf(before)[MatchIndex(before, call.batch[1].id)]
             IN \E p \in DeclaredPaths(extractedFields, e.type, call.batch[1].fields[1].f) :
                  SameExceptAt(before, tree, e.elements \o p)

C1_Witness ==
  /\ call.name = "merge"
  /\ call.batch = <<Unit("n1", Undef, Undef, <<Cell("color", Str("B"))>>)>>
  /\ Len(RawElements(before, "node")) = 2
  /\ Len(RawElements(before, "edge")) = 1
  /\ ret.err = ""
  /\ tree # before

\* every extracted label and field of the batch is a string
AllStrings(batch) ==
  \A j \in 1..Len(batch) :
    /\ batch[j].label.k = "str"
    /\ \A h \in 1..Len(batch[j].fields) : batch[j].fields[h].v.k = "str"

\* every schema path that resolves to a string in an entity of t addresses
\* a key of an object, not an element of an array
SlotsInObjects(t) ==
  \A j \in 1..Len(ElementsOf(t)) :
    LET e == ElementsOf(t)[j]
    IN \A sec \in {e.type, "common"} :
         \A h \in 1..Len(extractedFields[sec]) :
           LET p == extractedFields[sec][h].p
           IN getNestedString(ElementTree(t, e), p).err = ""
                => getNestedProperty(ElementTree(t, e), Front(p)).v.t = "m"

Remove(batch, j) == SubSeq(batch, 1, j - 1) \o SubSeq(batch, j + 1, Len(batch))
Count(seq, x) == Cardinality({j \in 1..Len(seq) : seq[j] = x})

\* C6: a record whose id matches no collected entity gives one warning,
\* writes nothing and does not abort: the merge ends as the merge of the
\* batch without that record does, wherever the record stands in the batch.
C6_UnmatchedSkipped ==
  (call.name = "merge" /\ Collects(before))
    => \A j \in 1..Len(call.batch) :
         MatchIndex(before, call.batch[j].id) = 0
           => LET id == call.batch[j].id
                  rest == updateGraph(before, Remove(call.batch, j), extractedFields)
                  pre == updateGraph(before, SubSeq(call.batch, 1, j - 1), extractedFields)
              IN /\ tree = rest.graph
                 /\ ret.err = rest.err
                 /\ pre.err = ""
                      => /\ Count(ret.warnings, RowWarning(id)) = 1
                         /\ SelectSeq(ret.warnings, LAMBDA w : w # RowWarning(id))
                              = rest.warnings

C6_Witness ==
  /\ call.name = "merge"
  /\ Len(call.batch) = 2
  /\ call.batch[1].id = "n9"
  /\ MatchIndex(before, call.batch[2].id) # 0
  /\ ret.err = ""
  /\ ret.warnings = <<RowWarning("n9")>>
  /\ tree # before

\* the fields of a matched record that have a value and no schema entry
Unknown(t, unit, f) ==
  /\ MatchIndex(t, unit.id) # 0
  /\ LET type == ElementsOf(t)[MatchIndex(t, unit.id)].type
     IN ~HasField(extractedFields[type], f) /\ ~HasField(extractedFields.common, f)
Known(t, batch) ==
  [j \in 1..Len(batch) |->
     [batch[j] EXCEPT !.fields =
        SelectSeq(@, LAMBDA c : ~(c.v.k # "undef" /\ Unknown(t, batch[j], c.f)))]]

\* C7: a field of an edited record without schema entry for the matched
\* entity's kind or for common gives a warning and writes nothing: the merge
\* ends as the merge of the batch without such fields does.
C7_UnknownFieldSkipped ==
  (call.name = "merge" /\ Collects(before))
    => LET known == updateGraph(before, Known(before, call.batch), extractedFields)
       IN /\ tree = known.graph
          /\ ret.err = known.err
          /\ SelectSeq(ret.warnings, LAMBDA w : w.kind # "field") = known.warnings
          /\ ret.err = ""
               => \A j \in 1..Len(call.batch) :
                    \A h \in 1..Len(call.batch[j].fields) :
                      LET c == call.batch[j].fields[h]
                      IN (c.v.k # "undef" /\ Unknown(before, call.batch[j], c.f))
                           => Count(ret.warnings, FieldWarning(c.f)) >= 1

C7_Witness ==
  /\ call.name = "merge"
  /\ call.batch = <<Unit("n0", Undef, Undef,
                         <<Cell("ghost", Str("G")), Cell("color", Str("B"))>>)>>
  /\ ret.err = ""
  /\ ret.warnings = <<FieldWarning("ghost")>>
  /\ tree # before

\* all but the last segment of p resolve in el
IntermediateExist(el, p) ==
  LET r == getNestedProperty(el, Front(p)) IN r.err = "" /\ r.v.t # "u"
ParentIsObject(el, p) ==
  LET r == getNestedProperty(el, Front(p)) IN r.err = "" /\ r.v.t = "m"

\* a merge of the single record {id, fields: {f: v}}, v a string, f in the
\* schema of the matched entity
OneFieldMerge ==
  /\ call.name = "merge"
  /\ Len(call.batch) = 1
  /\ OnlyField(call.batch[1])
  /\ call.batch[1].fields[1].v.k = "str"
  /\ Collects(before)
  /\ MatchIndex(before, call.batch[1].id) # 0
  /\ DeclaredPaths(extractedFields,
                   ElementsOf(before)[MatchIndex(before, call.batch[1].id)].type,
                   call.batch[1].fields[1].f) # {}

\* extract after the merge returns v for f on the entity and the value of
\* before for f on every other entity
ExtractsMerged ==
  LET m == MatchIndex(before, call.batch[1].id)
      f == call.batch[1].fields[1].f
      after == getUnitsFromGraph(tree, extractedFields)
      prior == getUnitsFromGraph(before, extractedFields)
      has(u) == \E h \in 1..Len(u.fields) : u.fields[h].f = f
  IN /\ ret.err = ""
     /\ after.err = ""
     /\ FieldValue(after.units[m], f) = Str(call.batch[1].fields[1].v.s)
     /\ \A j \in 1..Len(after.units) :
          (j # m /\ has(prior.units[j]))
            => FieldValue(after.units[j], f) = FieldValue(prior.units[j], f)

\* C8 as stated: whenever the intermediate segments of f's path exist in e.
C8_MergeThenExtractAnyParent ==
  LET e == ElementsOf(before)[MatchIndex(before, call.batch[1].id)]
  IN (OneFieldMerge
      /\ \A p \in DeclaredPaths(extractedFields, e.type, call.batch[1].fields[1].f) :
           IntermediateExist(ElementTree(before, e), p))
       => ExtractsMerged

\* C8 amended: when all but the last segment of f's path resolve to an
\* object of e, extract after the merge of {id: e, fields: {f: v}} returns v
\* for f on e and the former value of f on every other entity.
C8_MergeThenExtract ==
  LET e == ElementsOf(before)[MatchIndex(before, call.batch[1].id)]
  IN (OneFieldMerge
      /\ \A p \in DeclaredPaths(extractedFields, e.type, call.batch[1].fields[1].f) :
           ParentIsObject(ElementTree(before, e), p))
       => ExtractsMerged

C8_Witness ==
  /\ OneFieldMerge
  /\ call.batch = <<Unit("n0", Undef, Undef, <<Cell("tag", Str("T"))>>)>>
  /\ Len(RawElements(before, "node")) = 2
  /\ ExtractsMerged
  /\ FieldValue(getUnitsFromGraph(tree, extractedFields).units[2], "tag") = Null

\* ------------------------------------------------- claims on any document
\* the declared keys of the document, none when it has no <key> element
DeclaredKeys(t) ==
  IF KeyPos(Prop(t, "graphml"), "key") = 0 THEN <<>> ELSE Prop(Prop(t, "graphml"), "key").c
\* the ids of the keys declared with yfiles.type <kind>graphics
TypeKeys(t, kind) ==
  SelectSeq(DeclaredKeys(t),
            LAMBDA k : Prop(Prop(k, "$"), "yfiles.type") = Leaf(kind \o "graphics"))

\* C11: when no declared key has yfiles.type '<kind>graphics' for a kind,
\* collect of that kind throws and returns no entity (the error is that of
\* findKeyId when the document has elements of the kind and keys at all);
\* extract throws and returns no record; merge throws and leaves the tree as
\* it was.
C11_MissingTypeKey ==
  /\ (call.name = "collect" /\ TypeKeys(before, call.kind) = <<>>)
       => /\ ret.err # ""
          /\ ret.units = <<>>
          /\ (RawElements(before, call.kind) # <<>> /\ DeclaredKeys(before) # <<>>)
               => ret.err = call.kind \o "graphics key missing"
  /\ (call.name = "extract"
      /\ \E kind \in {"node", "edge"} : TypeKeys(before, kind) = <<>>)
       => ret.err # "" /\ ret.units = <<>>
  /\ (call.name = "merge"
      /\ \E kind \in {"node", "edge"} : TypeKeys(before, kind) = <<>>)
       => ret.err # "" /\ tree = before /\ ret.warnings = <<>>

C11_Witness ==
  /\ call.name = "merge"
  /\ TypeKeys(before, "node") # <<>>
  /\ TypeKeys(before, "edge") = <<>>
  /\ RawElements(before, "edge") # <<>>
  /\ call.batch = <<Unit("n0", Str("Z"), Undef, <<>>)>>
  /\ ret.err = "edgegraphics key missing"
  /\ tree = before

\* the positions of the data children of raw element e that carry key id
WithKey(e, id) ==
  {h \in 1..Len(Prop(e, "data").c) :
     /\ Prop(e, "data").c[h].t = "m"
     /\ Prop(Prop(Prop(e, "data").c[h], "$"), "key") = id}

\* C12: collect throws, returning no entity at all, when an element of the
\* kind has no data child, or more than one, whose key attribute is the id
\* of the key of the type; when collect returns, the data of every entity
\* is the one data child of its element that carries that key.
C12_OneBlockPerEntity ==
  (call.name = "collect" /\ TypeKeys(before, call.kind) # <<>>)
    => LET raw == RawElements(before, call.kind)
           id == Prop(Prop(TypeKeys(before, call.kind)[1], "$"), "id")
       IN /\ (\E j \in 1..Len(raw) : Cardinality(WithKey(raw[j], id)) # 1)
               => ret.err # "" /\ ret.units = <<>>
          /\ ret.err = ""
               => /\ Len(ret.units) = Len(raw)
                  /\ \A j \in 1..Len(raw) :
                       \E h \in WithKey(raw[j], id) :
                         /\ WithKey(raw[j], id) = {h}
                         /\ getNestedProperty(before, ret.units[j].data)
                              = Ok(Prop(raw[j], "data").c[h])

\* the second node has two graphics blocks: nothing is returned for the first
C12_Witness ==
  /\ call.name = "collect"
  /\ call.kind = "node"
  /\ Len(RawElements(before, "node")) = 2
  /\ Cardinality(WithKey(RawElements(before, "node")[1], Leaf("d6"))) = 1
  /\ Cardinality(WithKey(RawElements(before, "node")[2], Leaf("d6"))) = 2
  /\ ret.err = "Single item data field with key not found"
  /\ ret.units = <<>>

\* ------------------------------------------------------ extracted records
\* the output names a schema section declares
Names(fs) == {fs[j].f : j \in 1..Len(fs)}
\* the names of the fields of a record, each once
FieldNames(unit) == {unit.fields[j].f : j \in 1..Len(unit.fields)}
NoRepeat(unit) == Cardinality(FieldNames(unit)) = Len(unit.fields)
RawAttribute(e, name) == Prop(Prop(e, "$"), name)

\* C13: extract on a document that collects returns one record per entity,
\* the nodes in document order and then the edges in document order; a node
\* record has the field names of schema.node and schema.common and neither
\* source nor target; an edge record has the field names of schema.edge and
\* schema.common and the source and target attributes of its element.
C13_RecordShape ==
  (call.name = "extract" /\ Collects(before))
    => LET nodes == RawElements(before, "node")
           edges == RawElements(before, "edge")
       IN /\ ret.err = ""
          /\ Len(ret.units) = Len(nodes) + Len(edges)
          /\ \A j \in 1..Len(nodes) :
               /\ ret.units[j].id = RawId(nodes[j])
               /\ ret.units[j].type = "node"
               /\ FieldNames(ret.units[j])
                    = Names(extractedFields.node) \cup Names(extractedFields.common)
               /\ NoRepeat(ret.units[j])
               /\ ret.units[j].source = Undef
               /\ ret.units[j].target = Undef
          /\ \A j \in 1..Len(edges) :
               /\ ret.units[Len(nodes) + j].id = RawId(edges[j])
               /\ ret.units[Len(nodes) + j].type = "edge"
               /\ FieldNames(ret.units[Len(nodes) + j])
                    = Names(extractedFields.edge) \cup Names(extractedFields.common)
               /\ NoRepeat(ret.units[Len(nodes) + j])
               /\ ret.units[Len(nodes) + j].source = Str(RawAttribute(edges[j], "source").s)
               /\ ret.units[Len(nodes) + j].target = Str(RawAttribute(edges[j], "target").s)

\* two nodes and an edge whose source a merge has rewritten
C13_Witness ==
  /\ call.name = "extract"
  /\ ret.err = ""
  /\ Len(ret.units) = 3
  /\ FieldNames(ret.units[1]) = {"color", "foo", "tag"}
  /\ FieldNames(ret.units[3]) = {"width", "tag"}
  /\ ret.units[2].id = "n1"
  /\ ret.units[3].id = "e0"
  /\ ret.units[3].source = Str("n1")
  /\ ret.units[3].target = Str("n1")

\* ---------------------------------------------------------------- endpoints
\* the own attributes of collected entity e in tree t
AttributesOf(t, e) == getNestedProperty(t, e.attributes).v
\* the value the merge of unit leaves in an attribute that held prior
Rewritten(supplied, prior) == IF supplied = Undef THEN prior ELSE Leaf(supplied.s)

\* C14: the merge of one record rewrites the source and the target of a
\* matched edge with the ones the record supplies, so that collect returns
\* them, and leaves those the record does not supply as they were; a record
\* that matches a node never adds a source or a target attribute to it.
C14_EndpointsEdgesOnly ==
  (call.name = "merge" /\ ret.err = "" /\ Len(call.batch) = 1
   /\ Collects(before) /\ MatchIndex(before, call.batch[1].id) # 0)
    => LET m == MatchIndex(before, call.batch[1].id)
           e == ElementsOf(before)[m]
           after == getAllGraphUnits(tree)
       IN /\ e.type = "edge"
               => /\ after.err = ""
                  /\ Leaf(after.units[m].source.s)
                       = Rewritten(call.batch[1].source, Prop(AttributesOf(before, e), "source"))
                  /\ Leaf(after.units[m].target.s)
                       = Rewritten(call.batch[1].target, Prop(AttributesOf(before, e), "target"))
          /\ e.type = "node"
               => /\ KeyPos(AttributesOf(tree, e), "source") = 0
                  /\ KeyPos(AttributesOf(tree, e), "target") = 0

\* ------------------------------------------------- unchanged and cleared
\* what an optional value leaves in a slot that held prior (a result of
\* getNestedProperty): nothing new when undefined, '' when null, else itself
Leaves(val, prior) ==
  IF val.k = "undef" THEN prior
  ELSE IF val.k = "null" THEN Ok(Leaf(""))
  ELSE Ok(Leaf(val.s))

\* the record supplies a label and nothing else
OnlyLabel(u) ==
  /\ u.label # Undef /\ u.source = Undef /\ u.target = Undef
  /\ u.fields = <<>>

\* C15: in the merge of one record that matches entity e, a field of the
\* schema whose value is undefined leaves the tree as it was, without error
\* or warning; a field (or a label) whose value is null leaves the empty
\* string at its path when the merge completes, and one whose value is a
\* string leaves that string; a record without label leaves the label as it
\* was.
C15_UnchangedOrCleared ==
  (call.name = "merge" /\ Len(call.batch) = 1
   /\ Collects(before) /\ MatchIndex(before, call.batch[1].id) # 0)
    => LET u == call.batch[1]
           e == ElementsOf(before)[MatchIndex(before, call.batch[1].id)]
           fields == FieldsOf(extractedFields, e.type)
       IN /\ (OnlyField(u) /\ u.fields[1].v = Undef)
               => tree = before /\ ret.err = "" /\ ret.warnings = <<>>
          /\ (OnlyField(u) /\ HasField(fields, u.fields[1].f) /\ ret.err = "")
               => /\ getNestedProperty(ElementTree(tree, e), PathOf(fields, u.fields[1].f))
                       = Leaves(u.fields[1].v,
                                getNestedProperty(ElementTree(before, e),
                                                  PathOf(fields, u.fields[1].f)))
                  /\ getNestedProperty(ElementTree(tree, e), LabelPath(e.type))
                       = getNestedProperty(ElementTree(before, e), LabelPath(e.type))
          /\ (OnlyLabel(u) /\ ret.err = "")
               => getNestedProperty(ElementTree(tree, e), LabelPath(e.type))
                    = Leaves(u.label, Ok(Undefined))

\* the colour of a node is cleared
C15_Witness ==
  /\ call.name = "merge"
  /\ call.batch = <<Unit("n0", Undef, Undef, <<Cell("color", Null)>>)>>
  /\ ret.err = ""
  /\ Collects(before)
  /\ getNestedProperty(ElementTree(before, ElementsOf(before)[1]), ColorPath) = Ok(Leaf("A"))
  /\ getNestedProperty(ElementTree(tree, ElementsOf(before)[1]), ColorPath) = Ok(Leaf(""))

\* ------------------------------------------------------- export and import
\* C16: importExcel ends as it does when the hash of the graph file equals
\* the yedHash of the workbook (same error, same graph, same XML source,
\* same other warnings); once the workbook is read, it warns exactly when
\* the two hashes differ, before any warning of the merge.
C16_ProvenanceNonFatal ==
  call.name = "import"
    => LET same == importExcel(before, call.workbook.yedHash, call.workbook, call.options)
           read == importXlsx(call.workbook, call.options)
       IN /\ ret.err = same.err
          /\ tree = same.graph
          /\ ret.v = (IF same.err = "" THEN same.graph ELSE Undefined)
          /\ SelectSeq(ret.warnings, LAMBDA w : w # HashWarning) = same.warnings
          /\ Count(same.warnings, HashWarning) = 0
          /\ read.err # "" => ret.warnings = <<>>
          /\ (read.err = "" /\ call.hash = call.workbook.yedHash)
               => Count(ret.warnings, HashWarning) = 0
          /\ (read.err = "" /\ call.hash # call.workbook.yedHash)
               => /\ Count(ret.warnings, HashWarning) = 1
                  /\ ret.warnings[1] = HashWarning

C16_Witness ==
  /\ call.name = "import"
  /\ call.hash = "h2"
  /\ call.workbook.yedHash = "h1"
  /\ ret.err = ""
  /\ ret.warnings = <<HashWarning, RowWarning("n9")>>
  /\ tree # before
  /\ ret.v = tree

\* the columns of a list that the options keep
Kept(columns, options) ==
  IF options.include.k # "undef"
  THEN {c \in Names([j \in 1..Len(columns) |-> [f |-> columns[j]]]) :
          Contains(options.include.l, c)}
  ELSE IF options.exclude.k # "undef"
    THEN {c \in Names([j \in 1..Len(columns) |-> [f |-> columns[j]]]) :
            ~Contains(options.exclude.l, c)}
  ELSE Names([j \in 1..Len(columns) |-> [f |-> columns[j]]])

\* the tree with the child element of every entity of es put back as it is
\* in tree b
RECURSIVE Restore(_, _, _)
Restore(t, b, es) ==
  IF es = <<>> THEN t
  ELSE Restore(replaceAt(t, Head(es).elements, ElementTree(b, Head(es))), b, Tail(es))

\* C17: with include set, a row of the export has the columns of the unit
\* that include lists, whatever exclude says; with exclude alone, those not
\* in exclude; with neither, all of them.  An import ends as the import of
\* the workbook without the filtered columns does, and with include
\* ['id', 'label'] the graph changes in label slots only.
C17_ColumnFilter ==
  /\ (call.name = "export" /\ ret.err = "")
       => /\ Len(ret.xlsx.rows) = Len(ret.units)
          /\ \A j \in 1..Len(ret.units) :
               LET all == allFields(ret.units[j].fields, restOf(ret.units[j]))
                   kept == Kept(ColumnsOf(all), call.options.columnsToExcel)
               IN /\ ColumnsOf(ret.xlsx.rows[j])
                       = SelectSeq(ColumnsOf(all), LAMBDA c : c \in kept)
                  /\ \A h \in 1..Len(ret.xlsx.rows[j]) :
                       ret.xlsx.rows[j][h].v = CellOf(all, ret.xlsx.rows[j][h].f)
  /\ call.name = "import"
       => LET kept == Kept(getAllColumnNames(call.workbook.rows), call.options.fieldsToImport)
              stripped == [call.workbook EXCEPT !.rows =
                             [j \in 1..Len(call.workbook.rows) |->
                                SelectSeq(call.workbook.rows[j], LAMBDA c : c.f \in kept)]]
              plain == importExcel(before, call.hash, stripped,
                                   [call.options EXCEPT !.fieldsToImport = [include |-> NoList, exclude |-> NoList]])
          IN /\ tree = plain.graph
             /\ ret.err = plain.err
             /\ ret.units = plain.units
             /\ \A j \in 1..Len(ret.units) :
                  /\ FieldNames(ret.units[j]) \subseteq kept
                  /\ ret.units[j].source # Undef => "source" \in kept
                  /\ ret.units[j].target # Undef => "target" \in kept
                  /\ (ret.units[j].label # Undef /\ call.options.postProcess = "none")
                       => "label" \in kept
             /\ call.options.fieldsToImport = [include |-> Listed(<<"id", "label">>), exclude |-> NoList]
                  => /\ Restore(tree, before, ElementsOf(before)) = before
                     /\ \A j \in 1..Len(ElementsOf(before)) :
                          \/ ElementTree(tree, ElementsOf(before)[j])
                               = ElementTree(before, ElementsOf(before)[j])
                          \/ SameExceptAt(ElementTree(before, ElementsOf(before)[j]),
                                          ElementTree(tree, ElementsOf(before)[j]),
                                          LabelPath(ElementsOf(before)[j].type))

\* the workbook edits labels, colours and endpoints; only the labels arrive
C17_Witness ==
  /\ call.name = "import"
  /\ call.options = [fieldsToImport |-> [include |-> Listed(<<"id", "label">>), exclude |-> NoList],
                     postProcess |-> "none"]
  /\ Len(call.workbook.rows) = 3
  /\ CellOf(call.workbook.rows[1], "color") = Str("B")
  /\ ret.err = ""
  /\ tree # before
  /\ getNestedProperty(ElementTree(tree, ElementsOf(before)[1]), LabelPath("node"))
       = Ok(Leaf("Z"))
  /\ getNestedProperty(ElementTree(tree, ElementsOf(before)[1]), ColorPath) = Ok(Leaf("A"))
  /\ AttributesOf(tree, ElementsOf(before)[3]) = AttributesOf(before, ElementsOf(before)[3])

\* the results of a postProcess function that are units, in order
NonNull(units, name) ==
  LET given == SelectSeq([j \in 1..Len(units) |-> postProcess(name, units[j])],
                         LAMBDA g : g.k = "unit")
  IN [j \in 1..Len(given) |-> given[j].u]

\* C20: with a postProcess function, the units of getUnitsFromGraph and of
\* importXlsx are the results of the function that are not null, in the
\* order of the units; on import, an entity all of whose units are dropped
\* stays as it was.
C20_PostProcess ==
  /\ (call.name = "export" /\ call.options.postProcess # "none")
       => LET base == getUnitsFromGraph(before, extractedFields)
          IN /\ ret.err = base.err
             /\ base.err = "" => ret.units = NonNull(base.units, call.options.postProcess)
  /\ (call.name = "import" /\ call.options.postProcess # "none")
       => LET base == importXlsx(call.workbook, [call.options EXCEPT !.postProcess = "none"])
          IN base.err = ""
               => /\ ret.units = NonNull(base.units, call.options.postProcess)
                  /\ \A j \in 1..Len(ElementsOf(before)) :
                       LET e == ElementsOf(before)[j]
                       IN (\A h \in 1..Len(base.units) :
                             base.units[h].id = e.id
                               => postProcess(call.options.postProcess, base.units[h]).k # "unit")
                            => /\ ElementTree(tree, e) = ElementTree(before, e)
                               /\ AttributesOf(tree, e) = AttributesOf(before, e)

\* the row of the edge is dropped, the rows of the nodes are merged
C20_Witness ==
  /\ call.name = "import"
  /\ call.options = [fieldsToImport |-> [include |-> NoList, exclude |-> NoList],
                     postProcess |-> "dropEdges"]
  /\ Len(call.workbook.rows) = 3
  /\ Len(ret.units) = 2
  /\ ret.units[1].id = "n0"
  /\ ret.units[2].id = "n1"
  /\ ret.err = ""
  /\ tree # before
  /\ AttributesOf(tree, ElementsOf(before)[3]) = AttributesOf(before, ElementsOf(before)[3])

\* -------------------------------------------------- topology and frame
\* what collect gives for a kind: the error, or the ids and kinds in order
Entities(t, kind) ==
  LET r == getGraphUnit(t, kind)
  IN [err |-> r.err,
      ids |-> [j \in 1..Len(r.units) |-> <<r.units[j].id, r.units[j].type>>]]
RawIds(t, kind) ==
  [j \in 1..Len(RawElements(t, kind)) |-> RawId(RawElements(t, kind)[j])]

\* C18: a merge that completes leaves the entities that collect returns as
\* they were: as many nodes and edges, with the same ids and kinds, in the
\* same order (and so does every sequence of such merges).
C18_NoTopologyChange ==
  (call.name = "merge" /\ ret.err = "")
    => \A kind \in {"node", "edge"} :
         /\ Entities(tree, kind) = Entities(before, kind)
         /\ RawIds(tree, kind) = RawIds(before, kind)

\* the second merge of a sequence: the units extracted after a merge that
\* rewrote a colour and the source of the edge are merged
C18_Witness ==
  /\ call.name = "merge"
  /\ call.kind = "extracted"
  /\ ret.err = ""
  /\ Len(call.batch) = 3
  /\ \E j \in 1..2 :
       /\ "color" \in FieldNames(call.batch[j])
       /\ FieldValue(call.batch[j], "color") = Str("B")
  /\ Entities(tree, "node").ids = <<<<"n0", "node">>, <<"n1", "node">>>>
  /\ Entities(tree, "edge").ids = <<<<"e0", "edge">>>>

Unresolvable(t, keys, j) ==
  LET cur == getNestedProperty(t, SubSeq(keys, 1, j - 1))
  IN /\ cur.err = ""
     /\ \/ cur.v.t = "m" /\ ~keys[j].num /\ KeyPos(cur.v, keys[j].s) = 0
        \/ cur.v.t = "l" /\ keys[j].num /\ keys[j].i >= Len(cur.v.c)

\* C21: in get, a string segment that names an absent key of the object, or
\* a numeric segment out of range of the array, makes the call throw at
\* any position of the path, the last included; get never returns
\* undefined.
C21_UnresolvableThrows ==
  call.name = "get"
    => /\ (\E j \in 1..Len(call.keys) : Unresolvable(before, call.keys, j))
            => ret.err # ""
       /\ ret.err = "" => ret.v # Undefined

\* ------------------------------------------------- the parent of the slot
\* C22 as stated: set accepts a parent that is an object or an array; with
\* an array and an index inside it, set replaces that element by the value.
C22_SetListElement ==
  (call.name = "set" /\ Len(call.keys) >= 1)
    => LET par == getNestedProperty(before, Front(call.keys))
           last == Last(call.keys)
       IN (par.err = "" /\ par.v.t = "l" /\ last.num /\ last.i < Len(par.v.c))
            => /\ ret.err = ""
               /\ getNestedProperty(tree, call.keys) = Ok(call.value)

\* C22 amended: set accepts a parent that is an object, and writes the slot
\* named by the last segment (a number names the key of its digits); when
\* the segments before the last resolve to an array or a string, set throws
\* 'Property not IXMLField' and the tree is unchanged, in-range index or not.
C22_SetObjectOnly ==
  (call.name = "set" /\ Len(call.keys) >= 1)
    => LET par == getNestedProperty(before, Front(call.keys))
           last == Last(call.keys)
       IN /\ (par.err = "" /\ par.v.t \in {"l", "s"})
               => /\ ret.err = "Property not IXMLField"
                  /\ tree = before
          /\ (par.err = "" /\ par.v.t = "m")
               => /\ ret.err = ""
                  /\ getNestedProperty(tree, Front(call.keys)).err = ""
                  /\ Prop(getNestedProperty(tree, Front(call.keys)).v, KeyName(last))
                       = call.value

\* an index inside an array is set
C22_Witness ==
  /\ call.name = "set"
  /\ before = List(<<Leaf("a"), Leaf("a")>>)
  /\ call.keys = <<Idx(1)>>
  /\ call.value = Leaf("b")
  /\ ret.err = "Property not IXMLField"
  /\ tree = before

\* -------------------------------------------------------- creating slots
\* C23: when the segments before the last resolve to an object without the
\* last key, set creates the key with the value and the tree is otherwise as
\* before; when a segment before the last names nothing, set throws and the
\* tree is as before.
C23_CreateSlot ==
  (call.name = "set" /\ Len(call.keys) >= 1)
    => LET par == getNestedProperty(before, Front(call.keys))
           last == Last(call.keys)
       IN /\ (par.err = "" /\ par.v.t = "m" /\ ~last.num /\ KeyPos(par.v, last.s) = 0)
               => /\ ret.err = ""
                  /\ getNestedProperty(tree, call.keys) = Ok(call.value)
                  /\ getNestedProperty(tree, Front(call.keys)).v.k
                       = Append(par.v.k, last.s)
                  /\ SameExceptAt(before, tree, call.keys)
          /\ (\E j \in 1..(Len(call.keys) - 1) : Unresolvable(before, call.keys, j))
               => /\ ret.err # ""
                  /\ tree = before

\* the key y is created in the empty object under x
C23_Witness ==
  /\ call.name = "set"
  /\ before = Map(<<"x">>, <<Map(<<>>, <<>>)>>)
  /\ call.keys = <<Key("x"), Key("y")>>
  /\ call.value = Leaf("b")
  /\ ret.err = ""
  /\ tree = Map(<<"x">>, <<Map(<<"y">>, <<Leaf("b")>>)>>)

\* ------------------------------------------- batches of several records
DistinctIds(batch) ==
  \A j, h \in 1..Len(batch) : j # h => batch[j].id # batch[h].id

Reorderings(batch) ==
  {[j \in 1..Len(batch) |-> batch[p[j]]] :
     p \in {q \in [1..Len(batch) -> 1..Len(batch)] :
              \A j, h \in 1..Len(batch) : j # h => q[j] # q[h]}}

\* C24: when the merge of a batch of records with pairwise distinct ids
\* completes without error, the merge of every permutation of the batch
\* completes without error and gives the same tree.
C24_OrderIndependent ==
  (call.name = "merge" /\ ret.err = "" /\ DistinctIds(call.batch))
    => \A p \in Reorderings(call.batch) :
         /\ updateGraph(before, p, extractedFields).err = ""
         /\ updateGraph(before, p, extractedFields).graph = tree

\* three records, of n0, n1 and e0, each of which changes its entity
C24_Witness ==
  /\ call.name = "merge"
  /\ Len(call.batch) = 3
  /\ {call.batch[j].id : j \in 1..3} = {"n0", "n1", "e0"}
  /\ ret.err = ""
  /\ \A j \in 1..3 :
       updateGraph(before, <<call.batch[j]>>, extractedFields).graph # before
  /\ tree # before

\* ------------------------------------------------- the root of the paths
\* the raw elements of a document with their kinds, nodes first
RawEntities(t) ==
  [j \in 1..Len(RawElements(t, "node")) |-> [e |-> RawElements(t, "node")[j], kind |-> "node"]]
    \o [j \in 1..Len(RawElements(t, "edge")) |->
          [e |-> RawElements(t, "edge")[j], kind |-> "edge"]]

\* the data child of a raw element that has the key of its kind's graphics
\* (d6 for nodes, d10 for edges), and the kinds of its child elements
BlockOf(x) ==
  LET key == Leaf(IF x.kind = "node" THEN "d6" ELSE "d10")
      data == Prop(x.e, "data").c
  IN data[CHOOSE j \in 1..Len(data) : Prop(Prop(data[j], "$"), "key") = key]
KindsIn(block) == SelectSeq(block.k, LAMBDA k : k # "$")

\* the block has child elements of one kind, and one of them, an element
OneChildElement(block) ==
  /\ Len(KindsIn(block)) = 1
  /\ Prop(block, KindsIn(block)[1]).t = "l"
  /\ Len(Prop(block, KindsIn(block)[1]).c) = 1
  /\ Prop(block, KindsIn(block)[1]).c[1].t # "s"

\* the records are those of the raw entities, each field read at its schema
\* path from the root that Root gives for the entity
ReadFrom(Root(_)) ==
  /\ ret.err = ""
  /\ Len(ret.units) = Len(RawEntities(before))
  /\ \A j \in 1..Len(ret.units) :
       LET fields == FieldsOf(extractedFields, RawEntities(before)[j].kind)
       IN \A h \in 1..Len(fields) :
            /\ fields[h].f \in FieldNames(ret.units[j])
            /\ FieldValue(ret.units[j], fields[h].f)
                 = OrNull(getNestedString(Root(RawEntities(before)[j]), fields[h].p))

\* C25 as stated: the schema paths are resolved from the data block of the
\* entity, and extract succeeds for every document that collects, whatever
\* child elements the data blocks have.
C25_RootAtDataBlock ==
  (call.name = "extract" /\ getAllGraphUnits(before).err = "")
    => ReadFrom(LAMBDA x : BlockOf(x))

\* C25 amended: when every data block has child elements of one kind and
\* exactly one of them, the schema paths are resolved from that child
\* element and extract succeeds; when a data block has no child element,
\* several kinds, several of one kind or a text child, extract throws and
\* returns no record.
C25_RootAtChildElement ==
  (call.name = "extract" /\ getAllGraphUnits(before).err = "")
    => IF \A j \in 1..Len(RawEntities(before)) :
            OneChildElement(BlockOf(RawEntities(before)[j]))
       THEN ReadFrom(LAMBDA x : Prop(BlockOf(x), KindsIn(BlockOf(x))[1]).c[1])
       ELSE ret.err # "" /\ ret.units = <<>>

\* the data block of n1 has child elements of two kinds
C25_Witness ==
  /\ call.name = "extract"
  /\ getAllGraphUnits(before).err = ""
  /\ Len(RawEntities(before)) = 3
  /\ KindsIn(BlockOf(RawEntities(before)[2])) = <<"y:ShapeNode", "y:GenericNode">>
  /\ extractedFields # NoSchema
  /\ ret.err = "Multiple child element types found from the data field"

\* ------------------------------------------------------------ no rollback
\* what a record has written when one of its writes throws: its endpoints,
\* or its endpoints, its label and some of its first fields
Truncations(unit) ==
  {[unit EXCEPT !.label = Undef, !.fields = <<>>]}
    \cup {[unit EXCEPT !.fields = SubSeq(unit.fields, 1, m)] : m \in 0..(Len(unit.fields) - 1)}

\* C26: a merge that throws at record k leaves the tree that the records
\* before k and the writes of record k before the failing one give; the
\* records after k are not applied.
C26_NoRollback ==
  (call.name = "merge" /\ ret.err # "" /\ Collects(before))
    => \E k \in 1..Len(call.batch) :
         /\ updateGraph(before, SubSeq(call.batch, 1, k - 1), extractedFields).err = ""
         /\ updateGraph(before, SubSeq(call.batch, 1, k), extractedFields).err = ret.err
         /\ \E unit \in Truncations(call.batch[k]) :
              LET r == updateGraph(before, Append(SubSeq(call.batch, 1, k - 1), unit),
                                   extractedFields)
              IN r.err = "" /\ r.graph = tree

\* the label of n1 is written, then the colour of n0, then the field foo of
\* n0 throws; the record of e0 is not applied
C26_Witness ==
  /\ call.name = "merge"
  /\ Len(call.batch) = 3
  /\ <<call.batch[1].id, call.batch[2].id, call.batch[3].id>> = <<"n1", "n0", "e0">>
  /\ call.batch[1].label = Str("Z")
  /\ call.batch[2].fields = <<Cell("color", Str("D")), Cell("foo", Str("F"))>>
  /\ call.batch[3].label = Str("E")
  /\ ret.err = "TypeError"
  /\ getNestedProperty(RawElements(tree, "node")[2],
                       <<Key("data"), Idx(1), Key("y:ShapeNode"), Idx(0)>> \o LabelPath("node"))
       = Ok(Leaf("Z"))
  /\ getNestedProperty(RawElements(tree, "node")[1],
                       <<Key("data"), Idx(1), Key("y:ShapeNode"), Idx(0)>> \o ColorPath)
       = Ok(Leaf("D"))
  /\ RawElements(tree, "edge") = RawElements(before, "edge")
  /\ RawElements(before, "edge")[1] # RawElements(
         updateGraph(before, <<call.batch[3]>>, extractedFields).graph, "edge")[1]

\* ------------------------------------------------------- matching by id
\* the batch with the type of every record turned into the other one
Retyped(batch) ==
  [j \in 1..Len(batch) |->
     [batch[j] EXCEPT !.type = IF @ = "node" THEN "edge" ELSE "node"]]

\* C27: the type of a record plays no part in the merge (the batch with
\* the other types gives the same tree, error and warnings), and an edge
\* that has the id of a node is left as it was.
C27_MatchIgnoresKind ==
  (call.name = "merge" /\ Collects(before))
    => /\ updateGraph(before, Retyped(call.batch), extractedFields).graph = tree
       /\ updateGraph(before, Retyped(call.batch), extractedFields).err = ret.err
       /\ updateGraph(before, Retyped(call.batch), extractedFields).warnings = ret.warnings
       /\ \A j \in 1..Len(RawElements(before, "edge")) :
            (\E h \in 1..Len(RawElements(before, "node")) :
               RawId(RawElements(before, "node")[h]) = RawId(RawElements(before, "edge")[j]))
              => RawElements(tree, "edge")[j] = RawElements(before, "edge")[j]

\* a record of type edge with id n1 and a label, in a document where n1 is
\* a node and an edge: the label of the node is written, the edge is not
C27_Witness ==
  /\ call.name = "merge"
  /\ call.batch[1].id = "n1"
  /\ call.batch[1].type = "edge"
  /\ call.batch[1].label = Str("W")
  /\ call.batch[2].id = "n9"
  /\ RawId(RawElements(before, "edge")[1]) = "n1"
  /\ ret.err = ""
  /\ getNestedProperty(RawElements(tree, "node")[2],
                       <<Key("data"), Idx(1), Key("y:ShapeNode"), Idx(0)>> \o LabelPath("node"))
       = Ok(Leaf("W"))
  /\ RawElements(tree, "edge") = RawElements(before, "edge")

\* ------------------------------------------------------ duplicate records
Max(S) == CHOOSE j \in S : \A h \in S : j >= h

\* the element a record of this id is applied to: the first with the id
FirstWithId(t, id) ==
  ElementsOf(t)[Min({j \in 1..Len(ElementsOf(t)) : ElementsOf(t)[j].id = id})]

\* the records of the batch that set the slot (label, source, target, or a
\* field of the schema) of the entity with the id
Setting(batch, id, slot) ==
  {j \in 1..Len(batch) :
     /\ batch[j].id = id
     /\ IF slot \in {"label", "source", "target"} THEN batch[j][slot] # Undef
        ELSE \E h \in 1..Len(batch[j].fields) :
               batch[j].fields[h].f = slot /\ batch[j].fields[h].v # Undef}
SetValue(unit, slot) ==
  IF slot \in {"label", "source", "target"} THEN unit[slot] ELSE FieldValue(unit, slot)

\* what the slot of the element holds in the tree
SlotValue(t, e, slot) ==
  IF slot \in {"source", "target"}
  THEN getNestedProperty(t, Append(e.attributes, Key(slot)))
  ELSE IF slot = "label"
    THEN getNestedProperty(ElementTree(t, e), LabelPath(e.type))
  ELSE getNestedProperty(ElementTree(t, e), PathOf(FieldsOf(extractedFields, e.type), slot))

\* C28: after a merge that completes, every slot that records of the batch
\* set for an entity holds the value of the last of these records, be it
\* the only one, an earlier one than the last record of the id, or the last.
C28_LastRecordWins ==
  (call.name = "merge" /\ ret.err = "" /\ Collects(before))
    => \A id \in {ElementsOf(before)[j].id : j \in 1..Len(ElementsOf(before))} :
         \A slot \in {"label", "source", "target"}
                       \cup Names(FieldsOf(extractedFields, FirstWithId(before, id).type)) :
           Setting(call.batch, id, slot) # {}
             => SlotValue(tree, FirstWithId(before, id), slot)
                  = Ok(Leaf(IF SetValue(call.batch[Max(Setting(call.batch, id, slot))], slot).k
                               = "str"
                            THEN SetValue(call.batch[Max(Setting(call.batch, id, slot))],
                                          slot).s
                            ELSE ""))

\* two records of n0: the first sets label and colour, the second another
\* colour; the label of the first and the colour of the second are kept
C28_Witness ==
  /\ call.name = "merge"
  /\ "color" \in Names(FieldsOf(extractedFields, "node"))
  /\ Len(call.batch) = 2
  /\ call.batch[1].id = "n0" /\ call.batch[2].id = "n0"
  /\ call.batch[1].label = Str("Z")
  /\ call.batch[1].fields = <<Cell("color", Str("C"))>>
  /\ call.batch[2].label = Undef
  /\ call.batch[2].fields = <<Cell("color", Str("B"))>>
  /\ ret.err = ""
  /\ SlotValue(tree, FirstWithId(before, "n0"), "label") = Ok(Leaf("Z"))
  /\ SlotValue(tree, FirstWithId(before, "n0"), "color") = Ok(Leaf("B"))
  /\ SlotValue(before, FirstWithId(before, "n0"), "color") = Ok(Leaf("A"))

\* ----------------------------------------------------- the type of a row
\* the cell of a column of row j that validateRow gets: none when the
\* options leave the column out
ImportedCell(j, column) ==
  IF column \in Kept(getAllColumnNames(call.workbook.rows), call.options.fieldsToImport)
  THEN CellOf(call.workbook.rows[j], column)
  ELSE Undef

\* C29: a row whose type column is 'node' or 'edge' gives a unit of that
\* type whatever its id; otherwise the type is the one the first letter of
\* the id tells, and without such a letter the import throws.
C29_TypeOfRow ==
  (call.name = "import" /\ call.options.postProcess = "none"
     /\ call.workbook.sheets = {"Content", "Metadata"})
    => /\ (\E j \in 1..Len(call.workbook.rows) :
             /\ ImportedCell(j, "id").k = "str"
             /\ ImportedCell(j, "type") \notin {Str("node"), Str("edge")}
             /\ FirstChar(ImportedCell(j, "id").s) \notin {"n", "e"})
            => ret.err # "" /\ ret.units = <<>>
       /\ Len(ret.units) = Len(call.workbook.rows)
            => \A j \in 1..Len(ret.units) :
                 ret.units[j].type
                   = IF ImportedCell(j, "type") \in {Str("node"), Str("edge")}
                     THEN ImportedCell(j, "type").s
                     ELSE IF FirstChar(ImportedCell(j, "id").s) = "n" THEN "node" ELSE "edge"

\* ------------------------------------------------------- fixed columns
\* the fixed properties an output unit has, and their values
FixedNames(unit) ==
  {"id", "type", "unitType", "label"}
    \cup (IF unit.source = Undef THEN {} ELSE {"source"})
    \cup (IF unit.target = Undef THEN {} ELSE {"target"})
FixedValue(unit, name) ==
  IF name \in {"label", "source", "target"} THEN unit[name] ELSE Str(unit[name])

\* C30: in a row of the export a cell with the name of a fixed property of
\* the unit holds that property, also when the unit has a user field of the
\* name, and the name has one cell only; an imported unit has no field
\* named label or unitType, its label is the label cell of its row, and a
\* merge writes the label at the label path of the entity and leaves the
\* slot of a schema field named label as it was.
C30_FixedShadowsField ==
  /\ (call.name = "export" /\ ret.err = "")
       => \A j \in 1..Len(ret.xlsx.rows) :
            /\ Cardinality(Names(ret.xlsx.rows[j])) = Len(ret.xlsx.rows[j])
            /\ \A h \in 1..Len(ret.xlsx.rows[j]) :
                 ret.xlsx.rows[j][h].f \in FixedNames(ret.units[j])
                   => ret.xlsx.rows[j][h].v
                        = FixedValue(ret.units[j], ret.xlsx.rows[j][h].f)
  /\ call.name = "import"
       => /\ \A j \in 1..Len(ret.units) :
               FieldNames(ret.units[j]) \cap {"label", "unitType"} = {}
          /\ (call.options.postProcess = "none"
                /\ Len(ret.units) = Len(call.workbook.rows))
               => \A j \in 1..Len(ret.units) :
                    ret.units[j].label = ImportedCell(j, "label")
          /\ (ret.err = "" /\ Collects(before))
               => \A id \in {ElementsOf(before)[j].id : j \in 1..Len(ElementsOf(before))} :
                    Setting(ret.units, id, "label") # {}
                      => SlotValue(tree, FirstWithId(before, id), "label")
                           = Ok(OrEmpty(ret.units[Max(Setting(ret.units, id, "label"))].label))
          /\ \A j \in 1..Len(ElementsOf(before)) :
               LET e == ElementsOf(before)[j]
               IN "label" \in Names(FieldsOf(extractedFields, e.type))
                    => getNestedProperty(ElementTree(tree, e),
                                         PathOf(FieldsOf(extractedFields, e.type), "label"))
                         = getNestedProperty(ElementTree(before, e),
                                             PathOf(FieldsOf(extractedFields, e.type),
                                                    "label"))

\* the unit of n0 has the label L and a user field label with the colour
\* A: the cell label of its row holds L
C30_Witness ==
  /\ call.name = "export"
  /\ ret.err = ""
  /\ call.options.postProcess = "none"
  /\ call.options.columnsToExcel = [include |-> NoList, exclude |-> NoList]
  /\ "label" \in FieldNames(ret.units[1])
  /\ FieldValue(ret.units[1], "label") = Str("A")
  /\ ret.units[1].label = Str("L")
  /\ CellOf(ret.xlsx.rows[1], "label") = Str("L")
  /\ "source" \in FieldNames(ret.units[3])
  /\ CellOf(ret.xlsx.rows[3], "source") = Str("n0")
====
